---- MODULE Spec2Model ----
(***************************************************************************)
(* A model of the csvq query engine core:                                  *)
(*   - Filter.EvaluateSequentially and its pre-flight parallel check       *)
(*     (specification SpecEval);                                           *)
(*   - the temporary-view scope stack and the view maps                    *)
(*     (specifications SpecScope, SpecStore, SpecCache, SpecClean);        *)
(*   - SortValue promotion and the ORDER BY comparison                     *)
(*     (specification SpecSort);                                           *)
(*   - Filter.Evaluate over the expression variants                        *)
(*     (specification SpecFilter);                                         *)
(*   - the lexer over the scanner's tokens and errors                      *)
(*     (specification SpecLex);                                            *)
(*   - the four scope stacks of a filter and of its child filters          *)
(*     (specification SpecChain);                                          *)
(*   - the parallel branch of EvaluateSequentially under fair scheduling   *)
(*     (specification SpecEvalFair).                                       *)
(***************************************************************************)
EXTENDS Integers, Sequences, FiniteSets, TLC

VARIABLES
    \* ---- Filter.EvaluateSequentially ----
    pc,                             \* position of the calling goroutine
    expr,                           \* the expr argument
    recordSet,                      \* f.records[0].view.RecordSet
    failAt,                         \* record indices at which the callback itself fails
    checkAvailableParallelRoutine,  \* Filter.checkAvailableParallelRoutine
    variables,                      \* f.variables: value of @a
    results,                        \* what the callback stored, by record index
    route,                          \* branch taken: "none", "parallel", "sequential"
    recordIndex,                    \* f.records[0].recordIndex on the sequential branch
    gm,                             \* the GoroutineTaskManager: error slot, waiting count
    workers,                        \* per worker goroutine: range, local recordIndex, pc
    ctxErr,                         \* ctx.Err() != nil
    ret,                            \* the error EvaluateSequentially returned
    invoked,                        \* history: how often the callback ran, by record index
    lateCalls,                      \* history: per worker, callbacks begun after the slot was set
    stored,                         \* history: errors handed to SetError, in order
    \* ---- the temporary-view scope stack and the view maps ----
    tempViews,                      \* Filter.tempViews: frames, innermost first; key -> *View
    cachedViews,                    \* the view map of file views held through the container
    views,                          \* the View objects, by address
    fileInfos,                      \* the FileInfo objects, by address
    held,                           \* the *View the running statement holds (0: none)
    task,                           \* GetWithInternalId in progress: per task, range and position
    atStore,                        \* history: per FileInfo, header and records at the last Store
    last,                           \* history: the last operation and its arguments
    \* ---- SortValues.Less ----
    values,                         \* the receiver: one SortValue per ORDER BY key
    compareValues,                  \* the argument: one SortValue per ORDER BY key
    directions,                     \* per key: ASC or DESC
    nullPositions,                  \* per key: FIRST or LAST
    less,                           \* what Less returned, per key and over the lists
    compared,                       \* three SortValues and what Less and EquivalentTo returned
    \* ---- Filter.Evaluate ----
    records,                        \* f.records: the record stack, innermost first
    replaceValues,                  \* the replace values bound to the context
    evaluated,                      \* history: the last expression evaluated and its outcome
    \* ---- Lexer ----
    scanner,                        \* Lexer.Scanner: the source and the position in it
    lexer,                          \* Lexer.token and Lexer.err
    lexed,                          \* history: what each Scan returned, in order
    reports,                        \* history: the messages handed to Error, in order
    parse,                          \* the parser: "none", "parsing", "done"
    \* ---- the scope stacks of a filter and of its child filters ----
    frames,                         \* per kind of stack, the frames by address
    filters                         \* the filter and its child filters, the one in use last

evalVars == <<pc, expr, recordSet, failAt, checkAvailableParallelRoutine, variables,
              results, route, recordIndex, gm, workers, ctxErr, ret, invoked,
              lateCalls, stored>>

scopeVars == <<tempViews, cachedViews, views, fileInfos, held, task, atStore, last>>

sortVars == <<values, compareValues, directions, nullPositions, less, compared>>

filterVars == <<records, replaceValues, evaluated>>

lexVars == <<scanner, lexer, lexed, reports, parse>>

chainVars == <<frames, filters>>

vars == <<evalVars, scopeVars, sortVars, filterVars, lexVars, chainVars>>

-----------------------------------------------------------------------------
(* Bounds *)

MaxRecords == 3
MaxCPU == 2
MaxDepth == 2
MaxViews == MaxDepth + 1
MaxRows == 2
MaxFields == 2
MaxErrors == 2
MaxDeclared == 3

-----------------------------------------------------------------------------
(* Primary values and the ternary kernel *)

Ternary(t) == [kind |-> "Ternary", v |-> t]
TRUE_ == Ternary(1)
UNKNOWN_ == Ternary(0)
FALSE_ == Ternary(-1)
Null == [kind |-> "Null", v |-> 0]
Integer(n) == [kind |-> "Integer", v |-> n]

IsNull(p) == p.kind = "Null"

\* strings.ToUpper over the strings of the model
ToUpper(str) ==
    CASE str = "t" -> "T"
      [] str = "u" -> "U"
      [] str = "a" -> "A"
      [] str = "b" -> "B"
      [] str = "1a" -> "1A"
      [] str = "true" -> "TRUE"
      [] str = "false" -> "FALSE"
      [] str = "count" -> "COUNT"
      [] OTHER -> str

\* Primary.Ternary(): the ternary view of a value
ToTernary(p) == IF p.kind = "Ternary" THEN p.v ELSE 0

Min2(a, b) == IF a < b THEN a ELSE b
Max2(a, b) == IF a < b THEN b ELSE a

TernaryAnd(a, b) == Min2(a, b)
TernaryOr(a, b) == Max2(a, b)
TernaryNot(a) == 0 - a

-----------------------------------------------------------------------------
(* Expressions *)

NilExpr == [type |-> "nil"]
PrimitiveType(v) == [type |-> "PrimitiveType", Value |-> v]
FieldReference(column) == [type |-> "FieldReference", Column |-> column]
ColumnNumber(n) == [type |-> "ColumnNumber", Number |-> n]
Arithmetic(l, op, r) == [type |-> "Arithmetic", LHS |-> l, Operator |-> op, RHS |-> r]
Comparison(l, op, r) == [type |-> "Comparison", LHS |-> l, Operator |-> op, RHS |-> r]
Subquery(q) == [type |-> "Subquery", Query |-> q]
AllColumns == [type |-> "AllColumns"]
AggregateFunction(name, args) == [type |-> "AggregateFunction", Name |-> name, Args |-> args]
Placeholder(name, ordinal) == [type |-> "Placeholder", Name |-> name, Ordinal |-> ordinal]
Variable == [type |-> "Variable"]
VariableSubstitution(e) == [type |-> "VariableSubstitution", Value |-> e]
Logic(l, op, r) == [type |-> "Logic", LHS |-> l, Operator |-> op, RHS |-> r]
UnaryLogic(e) == [type |-> "UnaryLogic", Operand |-> e]

Flip == VariableSubstitution(UnaryLogic(Variable))

Exprs == {
    NilExpr,
    ColumnNumber(1),
    ColumnNumber(2),
    Flip,
    Logic(ColumnNumber(1), "AND", Flip)
}

RECURSIVE ContainsSubstitution(_)
ContainsSubstitution(e) ==
    CASE e.type = "VariableSubstitution" -> TRUE
      [] e.type = "Logic" -> ContainsSubstitution(e.LHS) \/ ContainsSubstitution(e.RHS)
      [] e.type = "UnaryLogic" -> ContainsSubstitution(e.Operand)
      [] OTHER -> FALSE

-----------------------------------------------------------------------------
(* The filter's records, the context *)

\* a header field and a view as the filter reads them
HeaderField(column, isGroupKey) ==
    [Column |-> column, IsFromTable |-> TRUE, IsGroupKey |-> isGroupKey]
FilterView(header, recs, isGrouped) ==
    [Header |-> header, RecordSet |-> recs, isGrouped |-> isGrouped]

\* filterRecord
FilterRecord(view, index) == [view |-> view, recordIndex |-> index]

\* NewFilterForRecord: the new record in front of the records of the parent
NewRecords(parentRecords, view, index) == <<FilterRecord(view, index)>> \o parentRecords

\* Cell.Value: the cell of a grouped view holds a group, its value is the first of it
Value(view, cell) == IF view.isGrouped THEN cell[1] ELSE cell
\* Record.GroupLen
GroupLen(record) == Len(record[1])

\* the value of StatementReplaceValuesContextKey in a context
NoReplaceValues == [set |-> FALSE, Values |-> <<>>, Names |-> <<>>]
ReplaceValues(vals, names) == [set |-> TRUE, Values |-> vals, Names |-> names]

\* a context: whether ctx.Err() is not nil, and its replace values
Context(done, replace) == [done |-> done, values |-> replace]

-----------------------------------------------------------------------------
(* Filter.Evaluate *)

NoError == "nil"
Out(val, err, vs) == [val |-> val, err |-> err, variables |-> vs]

\* View.FieldIndex: a column number by position, a field reference by name
FieldIndex(view, e) ==
    IF e.type = "ColumnNumber"
    THEN IF e.Number \in 1..Len(view.Header)
         THEN [idx |-> e.Number, err |-> NoError]
         ELSE [idx |-> 0, err |-> "FieldNotExist"]
    ELSE LET found == {i \in 1..Len(view.Header) : view.Header[i].Column = e.Column} IN
         IF found = {} THEN [idx |-> 0, err |-> "FieldNotExist"]
         ELSE IF Cardinality(found) > 1 THEN [idx |-> 0, err |-> "FieldAmbiguous"]
         ELSE [idx |-> CHOOSE i \in found : TRUE, err |-> NoError]

\* the loop of evalFieldReference over f.records, from record i on, in steps of step
RECURSIVE evalFieldReferenceFrom(_, _, _, _, _)
evalFieldReferenceFrom(recs, e, vs, i, step) ==
    IF i \notin DOMAIN recs THEN Out(Null, "FieldNotExist", vs)
    ELSE LET v == recs[i]
             found == FieldIndex(v.view, e)
         IN IF found.err = NoError
            THEN IF /\ v.view.isGrouped
                    /\ v.view.Header[found.idx].IsFromTable
                    /\ ~v.view.Header[found.idx].IsGroupKey
                 THEN Out(Null, "FieldNotGroupKey", vs)
                 ELSE Out(Value(v.view, v.view.RecordSet[v.recordIndex + 1][found.idx]),
                          NoError, vs)
            ELSE IF found.err = "FieldAmbiguous" THEN Out(Null, "FieldAmbiguous", vs)
            ELSE evalFieldReferenceFrom(recs, e, vs, i + step, step)

\* the loop taken from the last record of f.records to the first
evalFieldReferenceOuterFirst(recs, e, vs) ==
    evalFieldReferenceFrom(recs, e, vs, Len(recs), -1)

\* (the fieldReferenceIndices of a record only remember what FieldIndex answered)
evalFieldReference(recs, e, vs) == evalFieldReferenceFrom(recs, e, vs, 1, 1)

\* Calculate: Null when an operand is Null or not a number
Calculate(lhs, rhs, op) ==
    IF lhs.kind = "Integer" /\ rhs.kind = "Integer"
    THEN [kind |-> "Integer", v |-> IF op = "+" THEN lhs.v + rhs.v ELSE lhs.v - rhs.v]
    ELSE Null

\* value.Compare: UNKNOWN when an operand is Null or the two do not compare
Compare(lhs, rhs, op) ==
    IF lhs.kind = "Integer" /\ rhs.kind = "Integer"
    THEN IF op = "=" THEN (IF lhs.v = rhs.v THEN 1 ELSE -1)
         ELSE (IF lhs.v < rhs.v THEN 1 ELSE -1)
    ELSE 0

\* Select: the query of the model is the view it selects, or the error it fails with
Select(q) == q

\* the aggregate functions built in
AggregateFunctions == {"COUNT", "MAX"}

Count(list) == Cardinality({k \in DOMAIN list : ~IsNull(list[k])})
Max(list) ==
    LET S == {list[k].v : k \in {j \in DOMAIN list : list[j].kind = "Integer"}} IN
    IF S = {} THEN Null
    ELSE [kind |-> "Integer", v |-> CHOOSE x \in S : \A y \in S : y <= x]

\* NewViewFromGroupedRecord: the rows of the group as a view
NewViewFromGroupedRecord(rec) ==
    LET record == rec.view.RecordSet[rec.recordIndex + 1] IN
    FilterView(rec.view.Header,
               [k \in 1..GroupLen(record) |-> [j \in 1..Len(record) |-> record[j][k]]],
               FALSE)

RECURSIVE Evaluate(_, _, _, _, _)

\* the Null test made after both operands are evaluated
evalArithmeticBothOperands(ctx, check, recs, vs, e) ==
    LET lhs == Evaluate(ctx, check, recs, vs, e.LHS) IN
    IF lhs.err # NoError THEN lhs
    ELSE LET rhs == Evaluate(ctx, check, recs, lhs.variables, e.RHS) IN
         IF rhs.err # NoError THEN rhs
         ELSE IF IsNull(lhs.val) THEN Out(Null, NoError, rhs.variables)
         ELSE Out(Calculate(lhs.val, rhs.val, e.Operator), NoError, rhs.variables)

evalArithmetic(ctx, check, recs, vs, e) ==
    LET lhs == Evaluate(ctx, check, recs, vs, e.LHS) IN
    IF lhs.err # NoError THEN lhs
    ELSE IF IsNull(lhs.val) THEN Out(Null, NoError, lhs.variables)
    ELSE LET rhs == Evaluate(ctx, check, recs, lhs.variables, e.RHS) IN
         IF rhs.err # NoError THEN rhs
         ELSE Out(Calculate(lhs.val, rhs.val, e.Operator), NoError, rhs.variables)

\* evalComparison, for a left-hand side of a single value
evalComparison(ctx, check, recs, vs, e) ==
    LET lhs == Evaluate(ctx, check, recs, vs, e.LHS) IN
    IF lhs.err # NoError THEN lhs
    ELSE IF IsNull(lhs.val) THEN Out(UNKNOWN_, NoError, lhs.variables)
    ELSE LET rhs == Evaluate(ctx, check, recs, lhs.variables, e.RHS) IN
         IF rhs.err # NoError THEN rhs
         ELSE Out(Ternary(Compare(lhs.val, rhs.val, e.Operator)), NoError, rhs.variables)

\* the two checks in the other order
evalSubqueryForValueRecordsFirst(vs, e) ==
    LET q == Select(e.Query) IN
    IF q.err # NoError THEN Out(Null, q.err, vs)
    ELSE IF 1 < Len(q.view.RecordSet) THEN Out(Null, "SubqueryTooManyRecords", vs)
    ELSE IF 1 < Len(q.view.Header) THEN Out(Null, "SubqueryTooManyFields", vs)
    ELSE IF Len(q.view.RecordSet) < 1 THEN Out(Null, NoError, vs)
    ELSE Out(Value(q.view, q.view.RecordSet[1][1]), NoError, vs)

evalSubqueryForValue(vs, e) ==
    LET q == Select(e.Query) IN
    IF q.err # NoError THEN Out(Null, q.err, vs)
    ELSE IF 1 < Len(q.view.Header) THEN Out(Null, "SubqueryTooManyFields", vs)
    ELSE IF 1 < Len(q.view.RecordSet) THEN Out(Null, "SubqueryTooManyRecords", vs)
    ELSE IF Len(q.view.RecordSet) < 1 THEN Out(Null, NoError, vs)
    ELSE Out(Value(q.view, q.view.RecordSet[1][1]), NoError, vs)

\* View.ListValuesForAggregateFunctions: the argument evaluated on each row of the group
ListValuesForAggregateFunctions(ctx, check, recs, vs, listExpr) ==
    LET view == NewViewFromGroupedRecord(recs[1])
        rows == [k \in 1..Len(view.RecordSet) |->
                    Evaluate(ctx, check, NewRecords(recs, view, k - 1), vs, listExpr)]
        failed == {k \in DOMAIN rows : rows[k].err # NoError}
    IN IF failed = {}
       THEN [list |-> [k \in DOMAIN rows |-> rows[k].val], err |-> NoError]
       ELSE [list |-> <<>>, err |-> rows[CHOOSE k \in failed : \A j \in failed : k <= j].err]

\* COUNT takes the length of the value list whatever its argument
CountShortCircuitNever(uname, listExpr) == FALSE

\* evalAggregateFunction: COUNT of a literal (or of *) is answered from the group
CountShortCircuit(uname, listExpr) == uname = "COUNT" /\ listExpr.type = "PrimitiveType"

\* evalAggregateFunction, with no user-defined function declared
evalAggregateFunction(ctx, check, recs, vs, e) ==
    LET uname == ToUpper(e.Name) IN
    IF uname \notin AggregateFunctions THEN Out(Null, "FunctionNotExist", vs)
    ELSE IF Len(e.Args) # 1 THEN Out(Null, "FunctionArgumentLength", vs)
    ELSE IF Len(recs) < 1 THEN Out(Null, "UnpermittedFunctionStatement", vs)
    ELSE IF ~recs[1].view.isGrouped THEN Out(Null, "NotGroupingRecords", vs)
    ELSE LET listExpr == IF e.Args[1] = AllColumns
                         THEN PrimitiveType([kind |-> "Integer", v |-> 1])
                         ELSE e.Args[1]
         IN IF CountShortCircuit(uname, listExpr)
            THEN Out([kind |-> "Integer",
                      v |-> GroupLen(records[1].view.RecordSet[recs[1].recordIndex + 1])],
                     NoError, vs)
            ELSE LET l == ListValuesForAggregateFunctions(ctx, check, recs, vs, listExpr) IN
                 IF l.err # NoError THEN Out(Null, l.err, vs)
                 ELSE IF uname = "COUNT"
                      THEN Out([kind |-> "Integer", v |-> Count(l.list)], NoError, vs)
                      ELSE Out(Max(l.list), NoError, vs)

\* the AND and OR of the two operands, the right one evaluated in every case
evalLogicBothOperands(ctx, check, recs, vs, e) ==
    LET lhs == Evaluate(ctx, check, recs, vs, e.LHS) IN
    IF lhs.err # NoError THEN lhs
    ELSE LET rhs == Evaluate(ctx, check, recs, lhs.variables, e.RHS) IN
         IF rhs.err # NoError THEN rhs
         ELSE IF e.Operator = "AND"
              THEN Out(Ternary(TernaryAnd(ToTernary(lhs.val), ToTernary(rhs.val))), NoError, rhs.variables)
              ELSE Out(Ternary(TernaryOr(ToTernary(lhs.val), ToTernary(rhs.val))), NoError, rhs.variables)

evalLogic(ctx, check, recs, vs, e) ==
    LET lhs == Evaluate(ctx, check, recs, vs, e.LHS) IN
    IF lhs.err # NoError THEN lhs
    ELSE IF e.Operator = "AND" /\ ToTernary(lhs.val) = -1 THEN Out(FALSE_, NoError, lhs.variables)
    ELSE IF e.Operator = "OR" /\ ToTernary(lhs.val) = 1 THEN Out(TRUE_, NoError, lhs.variables)
    ELSE LET rhs == Evaluate(ctx, check, recs, lhs.variables, e.RHS) IN
         IF rhs.err # NoError THEN rhs
         ELSE IF e.Operator = "AND"
              THEN Out(Ternary(TernaryAnd(ToTernary(lhs.val), ToTernary(rhs.val))), NoError, rhs.variables)
              ELSE Out(Ternary(TernaryOr(ToTernary(lhs.val), ToTernary(rhs.val))), NoError, rhs.variables)

evalUnaryLogic(ctx, check, recs, vs, e) ==
    LET ope == Evaluate(ctx, check, recs, vs, e.Operand) IN
    IF ope.err # NoError THEN ope
    ELSE Out(Ternary(TernaryNot(ToTernary(ope.val))), NoError, ope.variables)

\* VariableScopes.Substitute: evaluate the right-hand side, assign, yield the value
Substitute(ctx, check, recs, vs, e) ==
    LET rhs == Evaluate(ctx, check, recs, vs, e.Value) IN
    IF rhs.err # NoError THEN rhs
    ELSE Out(rhs.val, NoError, rhs.val)

evalVariableSubstitution(ctx, check, recs, vs, e) ==
    IF check
    THEN Out(Null, "ContainsSubstitusion", vs)
    ELSE Substitute(ctx, check, recs, vs, e)

\* the bound of the ordinal tested one too far
OrdinalNotSpecifiedOffByOne(replace, e) == Len(replace.Values) < e.Ordinal - 1

\* evalPlaceholder: idx = expr.Ordinal - 1; len(replace.Values) <= idx
OrdinalNotSpecified(replace, e) == Len(replace.Values) <= e.Ordinal - 1

\* evalPlaceholder; an index outside replace.Values is a runtime panic
evalPlaceholder(ctx, check, recs, vs, e) ==
    LET replace == ctx.values
        named == e.Name # ""
    IN IF ~replace.set THEN Out(Null, "StatementReplaceValueNotSpecified", vs)
       ELSE IF named /\ e.Name \notin DOMAIN replace.Names
       THEN Out(Null, "StatementReplaceValueNotSpecified", vs)
       ELSE IF ~named /\ OrdinalNotSpecified(replace, e)
       THEN Out(Null, "StatementReplaceValueNotSpecified", vs)
       ELSE LET idx == IF named THEN replace.Names[e.Name] ELSE e.Ordinal - 1 IN
            IF idx + 1 \in DOMAIN replace.Values
            THEN Evaluate(ctx, check, recs, vs, replace.Values[idx + 1])
            ELSE Out(Null, "IndexOutOfRange", vs)

\* the check of the context left out
ContextErrIgnored(ctx) == FALSE

\* ctx.Err() != nil
ContextErr(ctx) == ctx.done

Evaluate(ctx, check, recs, vs, e) ==
    IF ContextErr(ctx) THEN Out(Null, "ContextIsDone", vs)
    ELSE IF e = NilExpr THEN Out(TRUE_, NoError, vs)
    ELSE CASE e.type = "PrimitiveType" -> Out(e.Value, NoError, vs)
           [] e.type \in {"FieldReference", "ColumnNumber"} -> evalFieldReference(recs, e, vs)
           [] e.type = "Arithmetic" -> evalArithmetic(ctx, check, recs, vs, e)
           [] e.type = "Comparison" -> evalComparison(ctx, check, recs, vs, e)
           [] e.type = "Subquery" -> evalSubqueryForValue(vs, e)
           [] e.type = "AggregateFunction" -> evalAggregateFunction(ctx, check, recs, vs, e)
           [] e.type = "Logic" -> evalLogic(ctx, check, recs, vs, e)
           [] e.type = "UnaryLogic" -> evalUnaryLogic(ctx, check, recs, vs, e)
           [] e.type = "Variable" -> Out(vs, NoError, vs)
           [] e.type = "VariableSubstitution" -> evalVariableSubstitution(ctx, check, recs, vs, e)
           [] e.type = "Placeholder" -> evalPlaceholder(ctx, check, recs, vs, e)
           [] OTHER -> Out(Null, "InvalidValueExpression", vs)

-----------------------------------------------------------------------------
(* Errors as the callers see them: the kind, and the record it arose at *)

Err(type, at) == [type |-> type, at |-> at]
NoErr == Err(NoError, -1)
ContextIsDone == Err("ContextIsDone", -1)
NoResult == [kind |-> "None", v |-> 0]

\* views of one ternary column: record 0 holds one value, the records after it another
RecordSets ==
    {[i \in 1..n |-> IF i = 1 THEN <<Ternary(a)>> ELSE <<Ternary(b)>>] :
        n \in 0..MaxRecords, a \in {-1, 1}, b \in {-1, 1}}

\* the view of one column the filter of EvaluateSequentially stands on
RecordSetView(rs) == FilterView(<<HeaderField("c1", FALSE)>>, rs, FALSE)

\* The per-record callback the callers pass: evaluate expr on the record rec
\* the filter it is given stands on, fail with the evaluation's error or with its own, else
\* store the value under the original record index.
fn(check, vs, rec, index) ==
    LET r == Evaluate(Context(ctxErr, NoReplaceValues), check, <<rec>>, vs, expr) IN
    [err |-> IF r.err # NoError THEN Err(r.err, index)
             ELSE IF index \in failAt THEN Err("CallbackError", index)
             ELSE NoErr,
     val |-> IF r.err = NoError /\ index \notin failAt THEN r.val ELSE NoResult,
     variables |-> r.variables]

-----------------------------------------------------------------------------
(* GoroutineTaskManager *)

\* RecordRange: worker thIdx of number takes a contiguous range of [0, N)
RecordRange(cuts, thIdx) == [start |-> cuts[thIdx], end |-> cuts[thIdx + 1]]

\* the ways to cut [0, N) into number contiguous non-empty ranges
Cuts(N, number) ==
    {c \in [1..(number + 1) -> 0..N] :
        /\ c[1] = 0
        /\ c[number + 1] = N
        /\ \A i \in 1..number : c[i] < c[i + 1]}

\* the worker counts the manager may choose: capped at N and at the CPU count
Numbers(N) == 1..Min2(N, MaxCPU)

HasError == gm.err # NoErr

\* SetError: the slot is set once
SetError(e) == IF gm.err = NoErr THEN [gm EXCEPT !.err = e] ELSE gm

-----------------------------------------------------------------------------
(* Filter.EvaluateSequentially *)

\* a caller invokes EvaluateSequentially(ctx, fn, expr) on a filter standing on a view
Call(e, rs, fa) ==
    /\ pc = "idle"
    /\ pc' = "enter"
    /\ expr' = e
    /\ recordSet' = rs
    /\ failAt' = fa
    /\ results' = [i \in 1..Len(rs) |-> NoResult]
    /\ invoked' = [i \in 1..Len(rs) |-> 0]
    /\ UNCHANGED <<checkAvailableParallelRoutine, variables, route, recordIndex, gm,
                   workers, ctxErr, ret, lateCalls, stored>>
    /\ UNCHANGED <<scopeVars, sortVars, filterVars, lexVars, chainVars>>

\* expr == nil, or canUseMultithreading on an empty view: true at once
canUseMultithreadingSkip ==
    /\ pc = "enter"
    /\ expr = NilExpr \/ Len(recordSet) = 0
    /\ pc' = "dispatch"
    /\ UNCHANGED <<expr, recordSet, failAt, checkAvailableParallelRoutine, variables,
                   results, route, recordIndex, gm, workers, ctxErr, ret, invoked,
                   lateCalls, stored>>
    /\ UNCHANGED <<scopeVars, sortVars, filterVars, lexVars, chainVars>>

\* canUseMultithreading: f.init(); set the flag; f.next()
canUseMultithreadingBegin ==
    /\ pc = "enter"
    /\ expr # NilExpr /\ 0 < Len(recordSet)
    /\ checkAvailableParallelRoutine' = TRUE
    /\ recordIndex' = 0
    /\ pc' = "check"
    /\ UNCHANGED <<expr, recordSet, failAt, variables, results, route, gm, workers,
                   ctxErr, ret, invoked, lateCalls, stored>>
    /\ UNCHANGED <<scopeVars, sortVars, filterVars, lexVars, chainVars>>

\* a reset written at the end of the function only, missed by the early "return false"
FlagOnReturnKeptOnFalse(usable) == IF usable THEN FALSE ELSE checkAvailableParallelRoutine

\* the flag after canUseMultithreading returns: the deferred reset runs on every path
FlagOnReturn(usable) == FALSE

\* canUseMultithreading: evaluate the expression for record 0, look for the sentinel
canUseMultithreadingEnd ==
    /\ pc = "check"
    /\ LET r == Evaluate(Context(ctxErr, NoReplaceValues), checkAvailableParallelRoutine,
                         <<FilterRecord(RecordSetView(recordSet), recordIndex)>>,
                         variables, expr)
           usable == r.err # "ContainsSubstitusion"
       IN /\ variables' = r.variables
          /\ checkAvailableParallelRoutine' = FlagOnReturn(usable)
          /\ pc' = IF usable THEN "dispatch" ELSE "sequential"
          /\ route' = IF usable THEN route ELSE "sequential"
          /\ recordIndex' = IF usable THEN recordIndex ELSE -1
    /\ UNCHANGED <<expr, recordSet, failAt, results, gm, workers, ctxErr, ret, invoked,
                   lateCalls, stored>>
    /\ UNCHANGED <<scopeVars, sortVars, filterVars, lexVars, chainVars>>

\* the parallel branch: one goroutine per range, each on a filter of its own
Dispatch(number, cuts) ==
    /\ pc = "dispatch"
    /\ route' = "parallel"
    /\ gm' = [err |-> NoErr, count |-> number]
    /\ workers' = [thIdx \in 1..number |->
                     [start |-> RecordRange(cuts, thIdx).start,
                      end |-> RecordRange(cuts, thIdx).end,
                      recordIndex |-> -1,
                      pc |-> "next"]]
    /\ lateCalls' = [thIdx \in 1..number |-> 0]
    /\ pc' = "wait"
    /\ UNCHANGED <<expr, recordSet, failAt, checkAvailableParallelRoutine, variables,
                   results, recordIndex, ctxErr, ret, invoked, stored>>
    /\ UNCHANGED <<scopeVars, sortVars, filterVars, lexVars, chainVars>>

DispatchAny ==
    \/ /\ Len(recordSet) = 0
       /\ Dispatch(1, <<0, 0>>)
    \/ \E number \in Numbers(Len(recordSet)) :
           \E cuts \in Cuts(Len(recordSet), number) : Dispatch(number, cuts)

\* a worker: filter.next(), then the cooperative check of the slot and the context
WorkerNext(thIdx) ==
    /\ pc = "wait"
    /\ thIdx \in DOMAIN workers
    /\ workers[thIdx].pc = "next"
    /\ LET w == workers[thIdx]
           idx == w.recordIndex + 1
           stop == (w.end - w.start) <= idx \/ HasError \/ ctxErr
       IN /\ workers' = [workers EXCEPT ![thIdx] =
                            [w EXCEPT !.recordIndex = idx,
                                      !.pc = IF stop THEN "done" ELSE "call"]]
          /\ gm' = IF stop THEN [gm EXCEPT !.count = gm.count - 1] ELSE gm
    /\ UNCHANGED <<pc, expr, recordSet, failAt, checkAvailableParallelRoutine, variables,
                   results, route, recordIndex, ctxErr, ret, invoked, lateCalls, stored>>
    /\ UNCHANGED <<scopeVars, sortVars, filterVars, lexVars, chainVars>>

\* the goroutine returns on a callback error and does not reach gm.Done()
AfterCallbackErrorReturns(e) == SetError(e)

\* a callback error: gm.SetError(err); break; and gm.Done() after the loop
AfterCallbackError(e) == [SetError(e) EXCEPT !.count = gm.count - 1]

\* the worker's position in its own range taken for the record index
OriginalIndexLocal(w) == w.recordIndex

\* start+filter.currentIndex(): the index of the worker's record in the view
OriginalIndex(w) == w.start + w.recordIndex

\* the record the worker's filter stands on: NewFilterForSequentialEvaluation on
\* the view of recordSet[start:end], at the worker's own recordIndex
WorkerRecord(w) ==
    FilterRecord(RecordSetView(SubSeq(recordSet, w.start + 1, w.end)), w.recordIndex)

\* a worker: fn(filter, start+filter.currentIndex()); SetError and leave on an error
WorkerCall(thIdx) ==
    /\ pc = "wait"
    /\ thIdx \in DOMAIN workers
    /\ workers[thIdx].pc = "call"
    /\ LET w == workers[thIdx]
           index == OriginalIndex(w)
           r == fn(FALSE, variables, WorkerRecord(w), index)
           failed == r.err # NoErr
       IN /\ variables' = r.variables
          /\ results' = IF failed THEN results ELSE [results EXCEPT ![index + 1] = r.val]
          /\ invoked' = [invoked EXCEPT ![index + 1] = @ + 1]
          /\ lateCalls' = IF HasError THEN [lateCalls EXCEPT ![thIdx] = @ + 1] ELSE lateCalls
          /\ stored' = IF failed THEN Append(stored, r.err) ELSE stored
          /\ gm' = IF failed THEN AfterCallbackError(r.err) ELSE gm
          /\ workers' = [workers EXCEPT ![thIdx].pc = IF failed THEN "done" ELSE "next"]
    /\ UNCHANGED <<pc, expr, recordSet, failAt, checkAvailableParallelRoutine, route,
                   recordIndex, ctxErr, ret>>
    /\ UNCHANGED <<scopeVars, sortVars, filterVars, lexVars, chainVars>>

\* the two checks after Wait in the other order
ParallelResultContextFirst == IF ctxErr THEN ContextIsDone ELSE IF HasError THEN gm.err ELSE NoErr

\* what the parallel branch returns once Wait is released
ParallelResult == IF HasError THEN gm.err ELSE IF ctxErr THEN ContextIsDone ELSE NoErr

\* gm.Wait() and the return of the parallel branch
Wait ==
    /\ pc = "wait"
    /\ gm.count = 0
    /\ ret' = ParallelResult
    /\ pc' = "done"
    /\ UNCHANGED <<expr, recordSet, failAt, checkAvailableParallelRoutine, variables,
                   results, route, recordIndex, gm, workers, ctxErr, invoked, lateCalls,
                   stored>>
    /\ UNCHANGED <<scopeVars, sortVars, filterVars, lexVars, chainVars>>

\* the sequential branch: f.next(), then fn(f, f.currentIndex()) on f itself
Sequential ==
    /\ pc = "sequential"
    /\ LET idx == recordIndex + 1 IN
       IF Len(recordSet) <= idx
       THEN /\ recordIndex' = idx
            /\ pc' = "done"
            /\ UNCHANGED <<variables, results, invoked, ret>>
       ELSE LET r == fn(checkAvailableParallelRoutine, variables,
                        FilterRecord(RecordSetView(recordSet), idx), idx)
                failed == r.err # NoErr
            IN /\ recordIndex' = idx
               /\ variables' = r.variables
               /\ invoked' = [invoked EXCEPT ![idx + 1] = @ + 1]
               /\ results' = IF failed THEN results ELSE [results EXCEPT ![idx + 1] = r.val]
               /\ ret' = r.err
               /\ pc' = IF failed THEN "done" ELSE "sequential"
    /\ UNCHANGED <<expr, recordSet, failAt, checkAvailableParallelRoutine, route, gm,
                   workers, ctxErr, lateCalls, stored>>
    /\ UNCHANGED <<scopeVars, sortVars, filterVars, lexVars, chainVars>>

\* the context is cancelled while the call runs
Cancel ==
    /\ pc \notin {"idle", "done"}
    /\ ~ctxErr
    /\ ctxErr' = TRUE
    /\ UNCHANGED <<pc, expr, recordSet, failAt, checkAvailableParallelRoutine, variables,
                   results, route, recordIndex, gm, workers, ret, invoked, lateCalls,
                   stored>>
    /\ UNCHANGED <<scopeVars, sortVars, filterVars, lexVars, chainVars>>

\* the callback fails of its own at no record, at one, or at two
FailSets(N) == {fa \in SUBSET (0..(N - 1)) : Cardinality(fa) <= 2}

CallAny == \E e \in Exprs : \E rs \in RecordSets : \E fa \in FailSets(Len(rs)) : Call(e, rs, fa)

WorkerNextAny == \E thIdx \in 1..MaxCPU : WorkerNext(thIdx)

WorkerCallAny == \E thIdx \in 1..MaxCPU : WorkerCall(thIdx)

-----------------------------------------------------------------------------
(* Views, headers, records *)

Paths == {"t", "u"}
Names == Paths \cup {"T"}
KeySeq == <<"T", "U", "t", "u">>
Keys == {KeySeq[i] : i \in DOMAIN KeySeq}

ViewIds == 1..MaxViews

NoView == [Header |-> <<>>, RecordSet |-> <<>>, FileInfo |-> 0]
NoInfo == [Path |-> "", IsTemporary |-> FALSE, InitialHeader |-> <<>>, InitialRecordSet |-> <<>>]

EmptyMap == [k \in Keys |-> 0]

\* a view as its maker builds it: one column, n records, and a restore point
NewHeader == <<"c1">>
InternalIdColumn == "@__internal_id"
NewRecordSet(n) == [i \in 1..n |-> <<Integer(10 + i)>>]

\* Header.Copy, RecordSet.Copy: new slices with the same fields and cells
HeaderCopy(h) == [i \in 1..Len(h) |-> h[i]]
RecordSetCopy(rs) == [i \in 1..Len(rs) |-> [j \in 1..Len(rs[i]) |-> rs[i][j]]]

\* View.Copy: a new View with copies of header and records, on the same FileInfo
ViewCopy(v) == [Header |-> HeaderCopy(v.Header), RecordSet |-> RecordSetCopy(v.RecordSet),
                FileInfo |-> v.FileInfo]

Path(vs, fis, id) == fis[vs[id].FileInfo].Path

-----------------------------------------------------------------------------
(* The heap: addresses in use, allocation, collection *)

\* the addresses not in use
Free(heap, none) == {id \in ViewIds : heap[id] = none}
Lowest(S) == CHOOSE x \in S : \A y \in S : x <= y

\* the views the frames of a list of maps hold, in the order the loops over the
\* frames reach them (the keys of one map in a fixed order)
Visited(list) ==
    LET Entry(i) == [key |-> KeySeq[((i - 1) % Len(KeySeq)) + 1],
                     id |-> list[((i - 1) \div Len(KeySeq)) + 1][KeySeq[((i - 1) % Len(KeySeq)) + 1]]]
        IsStored(e) == e.id # 0
    IN SelectSeq([i \in 1..(Len(list) * Len(KeySeq)) |-> Entry(i)], IsStored)

\* the first occurrences of a sequence, in order
Dedup(seq) ==
    LET First(i) == \A j \in 1..(i - 1) : seq[j] # seq[i]
        Rank(i) == Cardinality({j \in 1..i : First(j)})
        n == Cardinality({j \in DOMAIN seq : First(j)})
    IN [r \in 1..n |-> seq[CHOOSE i \in DOMAIN seq : First(i) /\ Rank(i) = r]]

Reached(tv, cv, h) ==
    Dedup([i \in DOMAIN Visited(tv \o <<cv>>) |-> Visited(tv \o <<cv>>)[i].id]
          \o (IF h = 0 THEN <<>> ELSE <<h>>))
ReachedInfos(reached, vs) == Dedup([i \in DOMAIN reached |-> vs[reached[i]].FileInfo])

Index(seq, x) == CHOOSE i \in DOMAIN seq : seq[i] = x

\* objects nothing refers to any more are collected; an address has no meaning of its
\* own, so the objects that stay are numbered in the order they are reached
CollectMap(m, reached) == [k \in Keys |-> IF m[k] = 0 THEN 0 ELSE Index(reached, m[k])]
CollectViews(reached, infos, vs) ==
    [id \in ViewIds |->
        IF id <= Len(reached) THEN [vs[reached[id]] EXCEPT !.FileInfo = Index(infos, @)] ELSE NoView]
CollectInfos(infos, fis, none) ==
    [id \in ViewIds |-> IF id <= Len(infos) THEN fis[infos[id]] ELSE none]

-----------------------------------------------------------------------------
(* ViewMap *)

ViewMapExists(m, fpath) == m[ToUpper(fpath)] # 0

\* ViewMap.Get: the address of the view under the upper-cased name (0: not loaded);
\* the caller receives a copy of it
ViewMapGet(m, fpath) == m[ToUpper(fpath)]

ViewMapSetAsIs(m, vs, fis, id) ==
    IF vs[id].FileInfo # 0 THEN [m EXCEPT ![Path(vs, fis, id)] = id] ELSE m

ViewMapSet(m, vs, fis, id) ==
    IF vs[id].FileInfo # 0 THEN [m EXCEPT ![ToUpper(Path(vs, fis, id))] = id] ELSE m

ViewMapReplaceOk(m, vs, fis, id) == ViewMapExists(m, ToUpper(Path(vs, fis, id)))

ViewMapReplace(m, vs, fis, id) ==
    IF ViewMapReplaceOk(m, vs, fis, id)
    THEN [m EXCEPT ![ToUpper(Path(vs, fis, id))] = id]
    ELSE m

-----------------------------------------------------------------------------
(* TemporaryViewScopes *)

\* the first frame, from frame 0 outward, that holds the name (0: none)
RECURSIVE FirstHolding(_, _, _)
FirstHolding(list, fpath, d) ==
    IF d > Len(list) THEN 0
    ELSE IF ViewMapGet(list[d], fpath) # 0 THEN d
    ELSE FirstHolding(list, fpath, d + 1)

\* TemporaryViewScopes.Exists
ScopesExists(list, name) == \E d \in DOMAIN list : ViewMapExists(list[d], name)

\* TemporaryViewScopes.Get: the address of the view a copy is made of (0: TableNotLoaded)
ScopesGet(list, fpath) ==
    LET d == FirstHolding(list, fpath, 1) IN IF d = 0 THEN 0 ELSE ViewMapGet(list[d], fpath)

ScopesSetOutermost(list, vs, fis, id) == [list EXCEPT ![Len(list)] = ViewMapSet(list[Len(list)], vs, fis, id)]

\* TemporaryViewScopes.Set
ScopesSet(list, vs, fis, id) == [list EXCEPT ![1] = ViewMapSet(list[1], vs, fis, id)]

RECURSIVE ScopesReplaceFrom(_, _, _, _, _)
ScopesReplaceFrom(list, vs, fis, id, d) ==
    IF d > Len(list) THEN list
    ELSE IF ViewMapReplaceOk(list[d], vs, fis, id)
         THEN [list EXCEPT ![d] = ViewMapReplace(list[d], vs, fis, id)]
         ELSE ScopesReplaceFrom(list, vs, fis, id, d + 1)

RECURSIVE ScopesReplaceDownFrom(_, _, _, _, _)
ScopesReplaceDownFrom(list, vs, fis, id, d) ==
    IF d < 1 THEN list
    ELSE IF ViewMapReplaceOk(list[d], vs, fis, id)
         THEN [list EXCEPT ![d] = ViewMapReplace(list[d], vs, fis, id)]
         ELSE ScopesReplaceDownFrom(list, vs, fis, id, d - 1)

ScopesReplaceOutermost(list, vs, fis, id) == ScopesReplaceDownFrom(list, vs, fis, id, Len(list))

\* TemporaryViewScopes.Replace
ScopesReplace(list, vs, fis, id) == ScopesReplaceFrom(list, vs, fis, id, 1)

-----------------------------------------------------------------------------
(* Primary values of every kind, and the conversions of the value package *)

\* int64 at the width of the model: arithmetic wraps around
Int64Bits == 6
Int64 == (0 - 2 ^ (Int64Bits - 1))..(2 ^ (Int64Bits - 1) - 1)
Wrap(x) == ((x + 2 ^ (Int64Bits - 1)) % (2 ^ Int64Bits)) - 2 ^ (Int64Bits - 1)

\* the 1e9 of the code: nanoseconds per second at the scale of the model
\* (like 1e9 = 2^9 * 5^9 it has an odd factor)
NanosPerSecond == 6
\* float64 at the precision of the model: a Float holds a number of halves
FloatsPerSecond == 2

Float(h) == [kind |-> "Float", v |-> h]
String(s) == [kind |-> "String", v |-> s]
Boolean(b) == [kind |-> "Boolean", v |-> b]
\* a Datetime holds its UnixNano
Datetime(t) == [kind |-> "Datetime", v |-> t]

Digit(d) == <<"0", "1", "2", "3", "4", "5", "6", "7", "8", "9">>[d + 1]
NatToStr(n) == IF n < 10 THEN Digit(n) ELSE Digit(n \div 10) \o Digit(n % 10)
Abs(n) == IF n < 0 THEN 0 - n ELSE n
Int64ToStr(n) == IF n < 0 THEN "-" \o NatToStr(0 - n) ELSE NatToStr(n)
Float64ToStr(h) ==
    IF h % FloatsPerSecond = 0 THEN Int64ToStr(h \div FloatsPerSecond)
    ELSE (IF h < 0 THEN "-" ELSE "") \o NatToStr(Abs(h) \div FloatsPerSecond) \o ".5"

\* strings.TrimSpace and the byte order of Go strings, over the strings of the model
TrimSpace(s) == IF s = " b" THEN "b" ELSE s
StringsAscending ==
    <<"-1.5", "-2", "1", "1.5", "11", "1A", "1a", "2", "2.5", "A", "B", "FALSE", "TRUE", "a", "b", "true">>
Rank(s) == CHOOSE i \in DOMAIN StringsAscending : StringsAscending[i] = s
StringLess(a, b) == Rank(a) < Rank(b)

Unix(t) == t \div NanosPerSecond
Nanosecond(t) == t % NanosPerSecond
Float64FromTime(t) ==
    Unix(t) * FloatsPerSecond + (Nanosecond(t) * FloatsPerSecond) \div NanosPerSecond
Float64ToTime(f) == (f * NanosPerSecond) \div FloatsPerSecond

IsIntegerString(s) == \E n \in Int64 : Int64ToStr(n) = s
ParseInt(s) == CHOOSE n \in Int64 : Int64ToStr(n) = s
IsFloatString(s) == \E h \in Int64 : Float64ToStr(h) = s
ParseFloat(s) == CHOOSE h \in Int64 : Float64ToStr(h) = s

ToInteger(p) ==
    CASE p.kind = "Integer" -> p
      [] p.kind = "Float" /\ p.v % FloatsPerSecond = 0 -> Integer(p.v \div FloatsPerSecond)
      [] p.kind = "String" /\ IsIntegerString(TrimSpace(p.v)) -> Integer(ParseInt(TrimSpace(p.v)))
      [] OTHER -> Null

ToFloat(p) ==
    CASE p.kind = "Integer" -> Float(p.v * FloatsPerSecond)
      [] p.kind = "Float" -> p
      [] p.kind = "String" /\ IsFloatString(TrimSpace(p.v)) -> Float(ParseFloat(TrimSpace(p.v)))
      [] OTHER -> Null

ToDatetime(p) == IF p.kind = "Datetime" THEN p ELSE Null

ToBoolean(p) ==
    CASE p.kind = "Boolean" -> p
      [] p.kind = "String" /\ ToUpper(TrimSpace(p.v)) = "TRUE" -> Boolean(TRUE)
      [] p.kind = "String" /\ ToUpper(TrimSpace(p.v)) = "FALSE" -> Boolean(FALSE)
      [] p.kind = "Ternary" /\ p.v # 0 -> Boolean(p.v = 1)
      [] OTHER -> Null

ToString_(p) ==
    CASE p.kind = "String" -> p
      [] p.kind = "Integer" -> String(Int64ToStr(p.v))
      [] p.kind = "Float" -> String(Float64ToStr(p.v))
      [] OTHER -> Null

-----------------------------------------------------------------------------
(* SortValue *)

NullType == "NullType"
IntegerType == "IntegerType"
FloatType == "FloatType"
DatetimeType == "DatetimeType"
BooleanType == "BooleanType"
StringType == "StringType"

\* &SortValue{}: every field at its zero value
SortValue == [Type |-> NullType, Integer |-> 0, Float |-> 0, Datetime |-> 0,
              String |-> "", Boolean |-> FALSE]

NewSortValue(val) ==
    LET i == ToInteger(val)
        f == ToFloat(val)
        dt == ToDatetime(val)
        b == ToBoolean(val)
    IN IF IsNull(val) THEN SortValue
       ELSE IF ~IsNull(i)
       THEN [SortValue EXCEPT !.Type = IntegerType,
                              !.Integer = i.v,
                              !.Float = i.v * FloatsPerSecond,
                              !.Datetime = Wrap(i.v * NanosPerSecond),
                              !.String = ToString_(val).v]
       ELSE IF ~IsNull(f)
       THEN [SortValue EXCEPT !.Type = FloatType,
                              !.Float = f.v,
                              !.Datetime = (f.v * NanosPerSecond) \div FloatsPerSecond,
                              !.String = ToString_(val).v]
       ELSE IF ~IsNull(dt)
       THEN LET t == dt.v
                tf == Float64FromTime(t)
            IN IF Nanosecond(t) > 0
               THEN IF t = Float64ToTime(tf)
                    THEN [SortValue EXCEPT !.Type = FloatType,
                                           !.Float = tf,
                                           !.Datetime = t,
                                           !.String = Float64ToStr(tf)]
                    ELSE [SortValue EXCEPT !.Type = DatetimeType,
                                           !.Datetime = t]
               ELSE [SortValue EXCEPT !.Type = IntegerType,
                                      !.Integer = Unix(t),
                                      !.Float = Unix(t) * FloatsPerSecond,
                                      !.Datetime = t,
                                      !.String = Int64ToStr(Unix(t))]
       ELSE IF ~IsNull(b)
       THEN [SortValue EXCEPT !.Type = BooleanType,
                              !.Boolean = b.v,
                              !.Integer = IF b.v THEN 1 ELSE 0]
       ELSE IF val.kind = "String"
       THEN [SortValue EXCEPT !.Type = StringType,
                              !.String = ToUpper(TrimSpace(val.v))]
       ELSE SortValue

\* ternary.ConvertFromBool
ConvertFromBool(b) == IF b THEN 1 ELSE -1

\* Float against Integer compared on the String field
SortValueLessFloatByString(v, compareValue) ==
    CASE v.Type = IntegerType ->
           CASE compareValue.Type = IntegerType ->
                  IF v.Integer = compareValue.Integer THEN 0
                  ELSE ConvertFromBool(v.Integer < compareValue.Integer)
             [] compareValue.Type = FloatType -> ConvertFromBool(v.Float < compareValue.Float)
             [] compareValue.Type = DatetimeType ->
                  ConvertFromBool(v.Datetime < compareValue.Datetime)
             [] compareValue.Type = StringType ->
                  ConvertFromBool(StringLess(v.String, compareValue.String))
             [] OTHER -> 0
      [] v.Type = FloatType ->
           CASE compareValue.Type = IntegerType ->
                  IF v.String = compareValue.String THEN 0
                  ELSE ConvertFromBool(StringLess(v.String, compareValue.String))
             [] compareValue.Type = FloatType ->
                  IF v.Float = compareValue.Float THEN 0
                  ELSE ConvertFromBool(v.Float < compareValue.Float)
             [] compareValue.Type = DatetimeType ->
                  ConvertFromBool(v.Datetime < compareValue.Datetime)
             [] compareValue.Type = StringType ->
                  ConvertFromBool(StringLess(v.String, compareValue.String))
             [] OTHER -> 0
      [] v.Type = DatetimeType ->
           CASE compareValue.Type \in {IntegerType, FloatType, DatetimeType} ->
                  IF v.Datetime = compareValue.Datetime THEN 0
                  ELSE ConvertFromBool(v.Datetime < compareValue.Datetime)
             [] OTHER -> 0
      [] v.Type = StringType ->
           CASE compareValue.Type \in {IntegerType, FloatType, StringType} ->
                  IF v.String = compareValue.String THEN 0
                  ELSE ConvertFromBool(StringLess(v.String, compareValue.String))
             [] OTHER -> 0
      [] OTHER -> 0

\* SortValue.Less: a ternary (1 TRUE, 0 UNKNOWN, -1 FALSE)
SortValueLess(v, compareValue) ==
    CASE v.Type = IntegerType ->
           CASE compareValue.Type = IntegerType ->
                  IF v.Integer = compareValue.Integer THEN 0
                  ELSE ConvertFromBool(v.Integer < compareValue.Integer)
             [] compareValue.Type = FloatType -> ConvertFromBool(v.Float < compareValue.Float)
             [] compareValue.Type = DatetimeType ->
                  ConvertFromBool(v.Datetime < compareValue.Datetime)
             [] compareValue.Type = StringType ->
                  ConvertFromBool(StringLess(v.String, compareValue.String))
             [] OTHER -> 0
      [] v.Type = FloatType ->
           CASE compareValue.Type \in {IntegerType, FloatType} ->
                  IF v.Float = compareValue.Float THEN 0
                  ELSE ConvertFromBool(v.Float < compareValue.Float)
             [] compareValue.Type = DatetimeType ->
                  ConvertFromBool(v.Datetime < compareValue.Datetime)
             [] compareValue.Type = StringType ->
                  ConvertFromBool(StringLess(v.String, compareValue.String))
             [] OTHER -> 0
      [] v.Type = DatetimeType ->
           CASE compareValue.Type \in {IntegerType, FloatType, DatetimeType} ->
                  IF v.Datetime = compareValue.Datetime THEN 0
                  ELSE ConvertFromBool(v.Datetime < compareValue.Datetime)
             [] OTHER -> 0
      [] v.Type = StringType ->
           CASE compareValue.Type \in {IntegerType, FloatType, StringType} ->
                  IF v.String = compareValue.String THEN 0
                  ELSE ConvertFromBool(StringLess(v.String, compareValue.String))
             [] OTHER -> 0
      [] OTHER -> 0

\* an Integer never equivalent to a Boolean, a Boolean still to an Integer
SortValueEquivalentToOneWay(v, compareValue) ==
    CASE v.Type = IntegerType /\ compareValue.Type = IntegerType ->
             v.Integer = compareValue.Integer
      [] v.Type = FloatType /\ compareValue.Type = FloatType -> v.Float = compareValue.Float
      [] v.Type = DatetimeType /\ compareValue.Type = DatetimeType ->
             v.Datetime = compareValue.Datetime
      [] v.Type = BooleanType /\ compareValue.Type = IntegerType ->
             v.Integer = compareValue.Integer
      [] v.Type = BooleanType /\ compareValue.Type = BooleanType ->
             v.Boolean = compareValue.Boolean
      [] v.Type = StringType /\ compareValue.Type = StringType -> v.String = compareValue.String
      [] v.Type = NullType -> compareValue.Type = NullType
      [] OTHER -> FALSE

\* SortValue.EquivalentTo
SortValueEquivalentTo(v, compareValue) ==
    CASE v.Type = IntegerType /\ compareValue.Type \in {IntegerType, BooleanType} ->
             v.Integer = compareValue.Integer
      [] v.Type = FloatType /\ compareValue.Type = FloatType -> v.Float = compareValue.Float
      [] v.Type = DatetimeType /\ compareValue.Type = DatetimeType ->
             v.Datetime = compareValue.Datetime
      [] v.Type = BooleanType /\ compareValue.Type = IntegerType ->
             v.Integer = compareValue.Integer
      [] v.Type = BooleanType /\ compareValue.Type = BooleanType ->
             v.Boolean = compareValue.Boolean
      [] v.Type = StringType /\ compareValue.Type = StringType -> v.String = compareValue.String
      [] v.Type = NullType -> compareValue.Type = NullType
      [] OTHER -> FALSE

ASC == "ASC"
DESC == "DESC"
FIRST == "FIRST"
LAST == "LAST"

\* the null position read only under ASC, turned around under DESC
NullDecidesByDirection(direction, nullPosition, first) ==
    IF direction = ASC THEN (nullPosition = FIRST) = first
    ELSE (nullPosition = FIRST) # first

\* one side only is Null: the answer of the null position (first: the receiver is the Null)
NullDecides(direction, nullPosition, first) == (nullPosition = FIRST) = first

\* SortValues.Less: the loop over the keys, from key i on
RECURSIVE SortValuesLessFrom(_, _, _, _, _)
SortValuesLessFrom(vals, cmp, dirs, nps, i) ==
    IF i > Len(vals) THEN FALSE
    ELSE LET t == SortValueLess(vals[i], cmp[i]) IN
         IF t # 0
         THEN IF dirs[i] = ASC THEN t = 1 ELSE t = -1
         ELSE IF vals[i].Type = NullType /\ cmp[i].Type # NullType
         THEN NullDecides(dirs[i], nps[i], TRUE)
         ELSE IF vals[i].Type # NullType /\ cmp[i].Type = NullType
         THEN NullDecides(dirs[i], nps[i], FALSE)
         ELSE SortValuesLessFrom(vals, cmp, dirs, nps, i + 1)

SortValuesLess(vals, cmp, dirs, nps) == SortValuesLessFrom(vals, cmp, dirs, nps, 1)

-----------------------------------------------------------------------------
(* Sorting: the callers of NewSortValue and of Less *)

MaxKeys == 2

\* the Primaries the ORDER BY keys of the model evaluate to
Primaries == {
    Null,
    Integer(-2), Integer(1), Integer(2), Integer(11),
    Float(-3), Float(3), Float(5),
    String("2"), String("1.5"), String("a"), String("1a"), String(" b"), String("B"), String("true"),
    Boolean(FALSE),
    Datetime(6), Datetime(9), Datetime(2), Datetime(8),
    UNKNOWN_
}

\* the Primaries of the keys of a list of several keys
KeyPrimaries == {Null, Integer(1), Integer(2)}
KeySortValues == {NewSortValue(p) : p \in KeyPrimaries}

NotCompared == [called |-> FALSE, forth |-> <<>>, back |-> <<>>,
                result |-> FALSE, reverse |-> FALSE]

\* a record pair with one ORDER BY key: the two values of the key
OneKey(p, q, direction, nullPosition) ==
    /\ Len(values) = 0
    /\ ~less.called
    /\ ~compared.called
    /\ values' = <<NewSortValue(p)>>
    /\ compareValues' = <<NewSortValue(q)>>
    /\ directions' = <<direction>>
    /\ nullPositions' = <<nullPosition>>
    /\ UNCHANGED <<less, compared>>
    /\ UNCHANGED <<evalVars, scopeVars, filterVars, lexVars, chainVars>>

\* one more ORDER BY key on both records
AddKey(p, q, direction, nullPosition) ==
    /\ Len(values) < MaxKeys
    /\ ~less.called
    /\ ~compared.called
    /\ \A i \in DOMAIN values : values[i] \in KeySortValues /\ compareValues[i] \in KeySortValues
    /\ values' = Append(values, NewSortValue(p))
    /\ compareValues' = Append(compareValues, NewSortValue(q))
    /\ directions' = Append(directions, direction)
    /\ nullPositions' = Append(nullPositions, nullPosition)
    /\ UNCHANGED <<less, compared>>
    /\ UNCHANGED <<evalVars, scopeVars, filterVars, lexVars, chainVars>>

\* the sort compares the two records, each way round
CallLess ==
    /\ 0 < Len(values)
    /\ ~less.called
    /\ less' = [called |-> TRUE,
                forth |-> [i \in DOMAIN values |-> SortValueLess(values[i], compareValues[i])],
                back |-> [i \in DOMAIN values |-> SortValueLess(compareValues[i], values[i])],
                result |-> SortValuesLess(values, compareValues, directions, nullPositions),
                reverse |-> SortValuesLess(compareValues, values, directions, nullPositions)]
    /\ UNCHANGED <<values, compareValues, directions, nullPositions, compared>>
    /\ UNCHANGED <<evalVars, scopeVars, filterVars, lexVars, chainVars>>

NoneCompared == [called |-> FALSE]

\* the sort and the grouping meet three values of a key
CompareThree(p, q, r) ==
    /\ ~compared.called
    /\ Len(values) = 0
    /\ LET a == NewSortValue(p)
           b == NewSortValue(q)
           c == NewSortValue(r)
       IN compared' = [called |-> TRUE, a |-> a, b |-> b, c |-> c,
                       ab |-> SortValueLess(a, b), ba |-> SortValueLess(b, a),
                       bc |-> SortValueLess(b, c), ca |-> SortValueLess(c, a),
                       abEquivalent |-> SortValueEquivalentTo(a, b),
                       baEquivalent |-> SortValueEquivalentTo(b, a)]
    /\ UNCHANGED <<values, compareValues, directions, nullPositions, less>>
    /\ UNCHANGED <<evalVars, scopeVars, filterVars, lexVars, chainVars>>

SortNext ==
    \/ \E p \in Primaries : \E q \in Primaries :
           \E direction \in {ASC, DESC} : \E nullPosition \in {FIRST, LAST} :
               OneKey(p, q, direction, nullPosition)
    \/ \E p \in KeyPrimaries : \E q \in KeyPrimaries :
           \E direction \in {ASC, DESC} : \E nullPosition \in {FIRST, LAST} :
               AddKey(p, q, direction, nullPosition)
    \/ CallLess
    \/ /\ Len(values) = 0 /\ ~compared.called
       /\ \E p \in Primaries : \E q \in Primaries : \E r \in Primaries : CompareThree(p, q, r)

-----------------------------------------------------------------------------
(* Filter.Evaluate on a stack of records, under a context *)

MaxOrdinal == 3

\* views the records of a filter stand on: two tables that share the column c1,
\* a join in which c2 is ambiguous, and a view grouped by c1
FilterViews == {
    FilterView(<<HeaderField("c1", FALSE)>>, <<<<Integer(1)>>, <<Null>>>>, FALSE),
    FilterView(<<HeaderField("c1", FALSE), HeaderField("c2", FALSE)>>,
               <<<<Integer(2), Integer(3)>>>>, FALSE),
    FilterView(<<HeaderField("c2", FALSE), HeaderField("c2", FALSE)>>,
               <<<<Integer(4), Integer(5)>>>>, FALSE),
    FilterView(<<HeaderField("c1", TRUE), HeaderField("c2", FALSE)>>,
               << <<<<Integer(1), Integer(1)>>, <<Integer(2), Null>>>>,
                  <<<<Null>>, <<Integer(7)>>>> >>, TRUE)
}

\* the replace values a prepared statement is executed with
ReplaceValueChoices == <<
    ReplaceValues(<<PrimitiveType(Integer(7))>>, [n \in {"bar"} |-> 0]),
    ReplaceValues(<<PrimitiveType(Integer(7)), PrimitiveType(Null)>>, [n \in {"foo"} |-> 1])
>>

\* the views subqueries select: every shape up to MaxFields columns and MaxRows rows
QueryResults ==
    {[err |-> NoError,
      view |-> FilterView([j \in 1..fields |-> HeaderField("c1", FALSE)],
                          [i \in 1..rows |-> [j \in 1..fields |-> Integer(10 * i + j)]],
                          FALSE)] : fields \in 1..MaxFields, rows \in 0..MaxRows}
    \cup {[err |-> "TableNotLoaded", view |-> FilterView(<<>>, <<>>, FALSE)]}

LogicLeft == {PrimitiveType(TRUE_), PrimitiveType(FALSE_), PrimitiveType(UNKNOWN_)}
LogicRight == {PrimitiveType(TRUE_), PrimitiveType(FALSE_), PrimitiveType(Null), Flip,
               FieldReference("c9")}
ValueLeft == {PrimitiveType(Null), PrimitiveType(Integer(1)), FieldReference("c1")}
ValueRight == {PrimitiveType(Null), PrimitiveType(Integer(2)), Flip, FieldReference("c9")}

FilterExprs ==
    {Logic(l, op, r) : l \in LogicLeft, op \in {"AND", "OR"}, r \in LogicRight}
    \cup {Arithmetic(l, "+", r) : l \in ValueLeft, r \in ValueRight}
    \cup {Comparison(l, "=", r) : l \in ValueLeft, r \in ValueRight}
    \cup {Subquery(q) : q \in QueryResults}
    \cup {FieldReference("c1"), FieldReference("c2"), FieldReference("c9"), ColumnNumber(2)}
    \cup {AggregateFunction("count", <<AllColumns>>),
          AggregateFunction("COUNT", <<PrimitiveType(Null)>>),
          AggregateFunction("COUNT", <<FieldReference("c2")>>),
          AggregateFunction("COUNT", <<>>),
          AggregateFunction("MAX", <<FieldReference("c2")>>),
          AggregateFunction("MAX", <<AllColumns, AllColumns>>),
          AggregateFunction("nofn", <<AllColumns>>)}
    \cup {Placeholder("", k) : k \in 1..MaxOrdinal}
    \cup {Placeholder("foo", 1), Placeholder("bar", 2)}
    \cup {Flip, NilExpr}

NotEvaluated == [called |-> FALSE, expr |-> NilExpr, val |-> Null, err |-> NoError,
                 before |-> Null]

\* NewFilterForRecord: a filter for one record of a view, on top of the parent's records
NewFilterForRecord(view, index) ==
    /\ ~evaluated.called
    /\ Len(records) < MaxDepth
    /\ records' = NewRecords(records, view, index)
    /\ UNCHANGED <<replaceValues, evaluated>>
    /\ UNCHANGED <<evalVars, scopeVars, sortVars, lexVars, chainVars>>

\* a prepared statement is executed: its replace values are bound to the context
WithReplaceValues(replace) ==
    /\ ~evaluated.called
    /\ ~replaceValues.set
    /\ replaceValues' = replace
    /\ UNCHANGED <<records, evaluated>>
    /\ UNCHANGED <<evalVars, scopeVars, sortVars, lexVars, chainVars>>

\* the context is cancelled before the evaluation
CancelContext ==
    /\ ~evaluated.called
    /\ ~ctxErr
    /\ ctxErr' = TRUE
    /\ UNCHANGED <<pc, expr, recordSet, failAt, checkAvailableParallelRoutine, variables,
                   results, route, recordIndex, gm, workers, ret, invoked, lateCalls,
                   stored>>
    /\ UNCHANGED <<records, replaceValues, evaluated>>
    /\ UNCHANGED <<scopeVars, sortVars, lexVars, chainVars>>

\* f.Evaluate(ctx, e)
EvaluateExpr(e) ==
    /\ ~evaluated.called
    /\ LET r == Evaluate(Context(ctxErr, replaceValues), checkAvailableParallelRoutine,
                         records, variables, e)
       IN /\ evaluated' = [called |-> TRUE, expr |-> e, val |-> r.val, err |-> r.err,
                           before |-> variables]
          /\ variables' = r.variables
    /\ UNCHANGED <<pc, expr, recordSet, failAt, checkAvailableParallelRoutine,
                   results, route, recordIndex, gm, workers, ctxErr, ret, invoked,
                   lateCalls, stored>>
    /\ UNCHANGED <<records, replaceValues>>
    /\ UNCHANGED <<scopeVars, sortVars, lexVars, chainVars>>

\* the caller takes the value; the filter is ready for the next expression
Return ==
    /\ evaluated.called
    /\ evaluated' = NotEvaluated
    /\ UNCHANGED <<records, replaceValues>>
    /\ UNCHANGED <<evalVars, scopeVars, sortVars, lexVars, chainVars>>

FilterNext ==
    \/ \E view \in FilterViews : \E index \in 0..(MaxRows - 1) :
           index < Len(view.RecordSet) /\ NewFilterForRecord(view, index)
    \/ \E i \in DOMAIN ReplaceValueChoices : WithReplaceValues(ReplaceValueChoices[i])
    \/ CancelContext
    \/ \E e \in FilterExprs : EvaluateExpr(e)
    \/ Return

-----------------------------------------------------------------------------
(* Scanner and Lexer *)

MaxTokens == 3

\* the token kinds: EOF and Uncategorized of the scanner, a character as its
\* own kind, and the kinds the grammar numbers
Tokens == [EOF |-> -1, Uncategorized |-> -2, Colon |-> 58, Question |-> 63,
           IDENTIFIER |-> 57346, STRING |-> 57347, SELECT |-> 57348, FROM |-> 57349,
           PLACEHOLDER |-> 57350]

Token(kind, literal, ordinal, line, char, file) ==
    [Token |-> kind, Literal |-> literal, Quoted |-> FALSE, HolderOrdinal |-> ordinal,
     Line |-> line, Char |-> char, SourceFile |-> file]

\* the zero value of Token
ZeroToken == Token(0, "", 0, 0, 0, "")

\* the source text as its words, each followed by one space, and line breaks
LexItems == {"select", "from", "?", ":foo", "\"s", "@@@", "\n"}

\* Scanner.Init; line and char are those of the next character
NewScanner(src, file, forPrepared) ==
    [items |-> src, pos |-> 1, off |-> 0, line |-> 1, char |-> 1, holderOrdinal |-> 0,
     forPrepared |-> forPrepared, sourceFile |-> file]

RECURSIVE SkipSpaces(_)
SkipSpaces(s) ==
    IF s.pos <= Len(s.items) /\ s.items[s.pos] = "\n"
    THEN SkipSpaces([s EXCEPT !.pos = @ + 1, !.line = @ + 1, !.char = 1])
    ELSE s

NoScanError == ""

\* only the positional placeholders counted
HolderOrdinalPositionalOnly(s, w) == IF w = "?" THEN s.holderOrdinal + 1 ELSE s.holderOrdinal

\* the ordinal of the placeholder w: the next of the shared counter
HolderOrdinal(s, w) == s.holderOrdinal + 1

\* Scanner.Scan: the next token and the error of the scan. failKind is the
\* kind of the token returned together with an error.
Scan(s0, failKind) ==
    LET s == SkipSpaces(s0)
        w == IF s.pos <= Len(s.items) THEN s.items[s.pos] ELSE ""
        at(kind, literal, ordinal) == Token(kind, literal, ordinal, s.line, s.char, s.sourceFile)
        past == [s EXCEPT !.pos = @ + 1, !.off = 0, !.char = @ + Len(w) - s.off + 1]
        out(tok, err, next) == [tok |-> tok, err |-> err, scanner |-> next]
        holder == at(Tokens.PLACEHOLDER, w, HolderOrdinal(s, w))
        counted == [past EXCEPT !.holderOrdinal = HolderOrdinal(s, w)]
    IN IF s.pos > Len(s.items) THEN out(at(Tokens.EOF, "", 0), NoScanError, s)
       ELSE IF s.off = 1 THEN out(at(Tokens.IDENTIFIER, "foo", 0), NoScanError, past)
       ELSE CASE w = "select" -> out(at(Tokens.SELECT, w, 0), NoScanError, past)
              [] w = "from" -> out(at(Tokens.FROM, w, 0), NoScanError, past)
              [] w = "?" ->
                    IF s.forPrepared THEN out(holder, NoScanError, counted)
                    ELSE out(at(Tokens.Question, w, 0), NoScanError, past)
              [] w = ":foo" ->
                    IF s.forPrepared THEN out(holder, NoScanError, counted)
                    ELSE out(at(Tokens.Colon, ":", 0), NoScanError,
                             [s EXCEPT !.off = 1, !.char = @ + 1])
              [] w = "\"s" ->
                    \* the literal runs to the end of the source
                    out(at(failKind, "s", 0), "literal not terminated",
                        [past EXCEPT !.pos = Len(s.items) + 1])
              [] w = "@@@" -> out(at(failKind, w, 0), "invalid variable symbol", past)

\* the error value nil
Nil == [nil |-> TRUE]

NewSyntaxError(message, token) ==
    [SourceFile |-> token.SourceFile, Line |-> token.Line, Char |-> token.Char,
     Message |-> message]

\* a new Lexer: the zero token, no error
NewLexer == [token |-> ZeroToken, err |-> Nil]

\* fmt's %q of a literal without characters to escape
Quote(literal) == "\"" \o literal \o "\""

\* the end of input reported like any other token of a kind not positive
ErrorWithoutTermination(l, e) ==
    IF 0 < l.token.Token
    THEN [l EXCEPT !.err = NewSyntaxError(e \o ": unexpected token " \o Quote(l.token.Literal),
                                         l.token)]
    ELSE [l EXCEPT !.err = NewSyntaxError(e, l.token)]

\* Lexer.Error
Error(l, e) ==
    IF 0 < l.token.Token
    THEN [l EXCEPT !.err = NewSyntaxError(e \o ": unexpected token " \o Quote(l.token.Literal),
                                         l.token)]
    ELSE IF e = "syntax error" /\ l.token.Token = -1
    THEN [l EXCEPT !.err = NewSyntaxError(e \o ": unexpected termination", l.token)]
    ELSE [l EXCEPT !.err = NewSyntaxError(e, l.token)]

\* the token recorded before the scan error is reported
LexTokenFirst(l, tok, err) ==
    LET recorded == [l EXCEPT !.token = tok]
    IN IF err # NoScanError THEN Error(recorded, err) ELSE recorded

\* Lexer.Lex, on what Scan returned
Lex(l, tok, err) ==
    LET reported == IF err # NoScanError THEN Error(l, err) ELSE l
    IN [reported EXCEPT !.token = tok]

Sources == UNION {[1..n -> LexItems] : n \in 0..MaxTokens}

Report(e) == [e |-> e, at |-> Len(lexed)]

\* Parse: a lexer over a source
Parse(src, file, forPrepared) ==
    /\ parse = "none"
    /\ scanner' = NewScanner(src, file, forPrepared)
    /\ lexer' = NewLexer
    /\ lexed' = <<>>
    /\ reports' = <<>>
    /\ parse' = "parsing"
    /\ UNCHANGED <<evalVars, scopeVars, sortVars, filterVars, chainVars>>

\* the parser asks for the next token: l.Lex(lval)
LexStep(failKind) ==
    /\ parse = "parsing"
    /\ IF lexed = <<>> THEN TRUE ELSE 0 < lexed[Len(lexed)].tok.Token
    /\ LET r == Scan(scanner, failKind)
       IN /\ scanner' = r.scanner
          /\ lexer' = Lex(lexer, r.tok, r.err)
          /\ lexed' = Append(lexed, [tok |-> r.tok, err |-> r.err])
          /\ reports' = IF r.err # NoScanError THEN Append(reports, Report(r.err))
                        ELSE reports
    /\ UNCHANGED parse
    /\ UNCHANGED <<evalVars, scopeVars, sortVars, filterVars, chainVars>>

\* the parser cannot go on with the token it was given: l.Error("syntax error")
SyntaxError ==
    /\ parse = "parsing"
    /\ lexed # <<>>
    /\ lexer' = Error(lexer, "syntax error")
    /\ reports' = Append(reports, Report("syntax error"))
    /\ parse' = "done"
    /\ UNCHANGED <<scanner, lexed>>
    /\ UNCHANGED <<evalVars, scopeVars, sortVars, filterVars, chainVars>>

\* the parser accepts the input at its end
Accept ==
    /\ parse = "parsing"
    /\ IF lexed = <<>> THEN FALSE ELSE lexed[Len(lexed)].tok.Token <= 0
    /\ parse' = "done"
    /\ UNCHANGED <<scanner, lexer, lexed, reports>>
    /\ UNCHANGED <<evalVars, scopeVars, sortVars, filterVars, chainVars>>

LexNext ==
    \/ \E src \in Sources : \E file \in {"", "a.sql"} : \E forPrepared \in BOOLEAN :
           Parse(src, file, forPrepared)
    \/ \E failKind \in {Tokens.STRING, Tokens.Uncategorized} : LexStep(failKind)
    \/ SyntaxError
    \/ Accept

-----------------------------------------------------------------------------
(* The four scope stacks of a filter and of the child filters made from it *)

\* the stacks a filter holds: Filter.variables, .tempViews, .cursors, .functions
StackKinds == {"variables", "tempViews", "cursors", "functions"}
\* the names declared, and what a name is declared as (Undeclared: not in the frame)
Declarable == {"a"}
Declarations == {1, 2}
Undeclared == 0

\* NewVariableMap(), ViewMap{}, CursorMap{}, UserDefinedFunctionMap{}: a frame with no name
NewFrame == [name \in Declarable |-> Undeclared]

\* NewFilterWithScopes: the filter holds the four slices it is given
NewFilterWithScopes(variableScopes, tempViewScopes, cursorScopes, functionScopes) ==
    [variables |-> variableScopes, tempViews |-> tempViewScopes,
     cursors |-> cursorScopes, functions |-> functionScopes]

ChildScopesOfParent(frame, scopes) == scopes
\* append(Scopes{frame}, scopes...): a new slice, the new frame first, then the
\* frames of the parent, shared by reference
ChildScopes(frame, scopes) == <<frame>> \o scopes

\* the frames of a stack, innermost first, read through their addresses
StackFrames(fs, scopes) == [d \in DOMAIN scopes |-> fs[scopes[d]]]

\* name resolution walks the stack from frame 0 upward
RECURSIVE StackGetFrom(_, _, _)
StackGetFrom(list, name, d) ==
    IF d > Len(list) THEN Undeclared
    ELSE IF list[d][name] # Undeclared THEN list[d][name]
    ELSE StackGetFrom(list, name, d + 1)

StackGet(fs, scopes, name) == StackGetFrom(StackFrames(fs, scopes), name, 1)

\* TemporaryViewScopes.Set, list[0].Set(view): the write goes to frame 0 of the stack
StackSet(fs, scopes, name, value) == [fs EXCEPT ![scopes[1]][name] = value]

\* the declarations on the variable, cursor and function stacks: writes target frame 0
StackDeclare(fs, scopes, name, value) == [fs EXCEPT ![scopes[1]][name] = value]

\* a declaration on the stack of a kind
StackWrite(kind, fs, scopes, name, value) ==
    IF kind = "tempViews" THEN StackSet(fs, scopes, name, value)
    ELSE StackDeclare(fs, scopes, name, value)

\* ResetCurrentScope on one stack: every key of frame 0 is deleted
StackReset(fs, scopes) == [fs EXCEPT ![scopes[1]] = NewFrame]

\* the filter in use: the child made last
Current == filters[Len(filters)]

\* Filter.CreateChildScope on the filter in use; the child is the filter in use from here
FilterCreateChildScope ==
    /\ Len(filters) < MaxDepth
    /\ LET f == Current
           frame == Len(filters) + 1
       IN /\ frames' = [kind \in StackKinds |-> Append(frames[kind], NewFrame)]
          /\ filters' = Append(filters,
                 NewFilterWithScopes(ChildScopes(frame, f.variables),
                                     ChildScopes(frame, f.tempViews),
                                     ChildScopes(frame, f.cursors),
                                     ChildScopes(frame, f.functions)))
    /\ UNCHANGED <<evalVars, scopeVars, sortVars, filterVars, lexVars>>

\* the declarations the frames hold
Declared(fs) ==
    {x \in StackKinds \X (1..MaxDepth) \X Declarable :
        x[2] \in DOMAIN fs[x[1]] /\ fs[x[1]][x[2]][x[3]] # Undeclared}

\* a declaration through the filter in use: Set on one of its stacks
FilterSet(kind, name, value) ==
    /\ Cardinality(Declared([frames EXCEPT ![kind] =
                                 StackWrite(kind, frames[kind], Current[kind], name, value)]))
           <= MaxDeclared
    /\ frames' = [frames EXCEPT ![kind] = StackWrite(kind, frames[kind], Current[kind], name, value)]
    /\ UNCHANGED <<filters>>
    /\ UNCHANGED <<evalVars, scopeVars, sortVars, filterVars, lexVars>>

\* Filter.ResetCurrentScope on the filter in use
FilterResetCurrentScope ==
    /\ frames' = [kind \in StackKinds |-> StackReset(frames[kind], Current[kind])]
    /\ UNCHANGED <<filters>>
    /\ UNCHANGED <<evalVars, scopeVars, sortVars, filterVars, lexVars>>

\* the block ends: the child goes out of use and its frames with it, the parent is
\* the filter in use again
FilterExitChildScope ==
    /\ Len(filters) > 1
    /\ filters' = SubSeq(filters, 1, Len(filters) - 1)
    /\ frames' = [kind \in StackKinds |-> SubSeq(frames[kind], 1, Len(filters) - 1)]
    /\ UNCHANGED <<evalVars, scopeVars, sortVars, filterVars, lexVars>>

ChainNext ==
    \/ FilterCreateChildScope
    \/ \E kind \in StackKinds : \E name \in Declarable : \E value \in Declarations :
           FilterSet(kind, name, value)
    \/ FilterResetCurrentScope
    \/ FilterExitChildScope

-----------------------------------------------------------------------------
(* The scope stack: state and operations *)

Idle == <<>>
NoPoint == [Header |-> <<>>, RecordSet |-> <<>>, stored |-> FALSE]
Content(v) == [Header |-> v.Header, RecordSet |-> v.RecordSet, stored |-> TRUE]

\* the state after construction: a filter at rest, a scope stack of one empty frame
Init ==
    /\ pc = "idle"
    /\ expr = NilExpr
    /\ recordSet = <<>>
    /\ failAt = {}
    /\ checkAvailableParallelRoutine = FALSE
    /\ variables = FALSE_
    /\ results = <<>>
    /\ route = "none"
    /\ recordIndex = -1
    /\ gm = [err |-> NoErr, count |-> 0]
    /\ workers = <<>>
    /\ ctxErr = FALSE
    /\ ret = NoErr
    /\ invoked = <<>>
    /\ lateCalls = <<>>
    /\ stored = <<>>
    /\ tempViews = <<EmptyMap>>
    /\ cachedViews = EmptyMap
    /\ views = [id \in ViewIds |-> NoView]
    /\ fileInfos = [id \in ViewIds |-> NoInfo]
    /\ held = 0
    /\ task = Idle
    /\ atStore = [id \in ViewIds |-> NoPoint]
    /\ last = [op |-> "", name |-> "", keys |-> {}]
    /\ values = <<>>
    /\ compareValues = <<>>
    /\ directions = <<>>
    /\ nullPositions = <<>>
    /\ less = NotCompared
    /\ compared = NoneCompared
    /\ records = <<>>
    /\ replaceValues = NoReplaceValues
    /\ evaluated = NotEvaluated
    /\ scanner = NewScanner(<<>>, "", FALSE)
    /\ lexer = NewLexer
    /\ lexed = <<>>
    /\ reports = <<>>
    /\ parse = "none"
    /\ frames = [kind \in StackKinds |-> <<NewFrame>>]
    /\ filters = <<NewFilterWithScopes(<<1>>, <<1>>, <<1>>, <<1>>)>>

\* the last operation of interest, its name argument, its uncommitted set
Last(op, name) == [op |-> op, name |-> name, keys |-> {}]

\* the statement ends: the heap after it, with the given maps and nothing held
Settle(tv, cv, vs, fis) ==
    LET reached == Reached(tv, cv, 0)
        infos == ReachedInfos(reached, vs)
    IN /\ tempViews' = [d \in DOMAIN tv |-> CollectMap(tv[d], reached)]
       /\ cachedViews' = CollectMap(cv, reached)
       /\ held' = 0
       /\ views' = CollectViews(reached, infos, vs)
       /\ fileInfos' = CollectInfos(infos, fis, NoInfo)
       /\ atStore' = CollectInfos(infos, atStore, NoPoint)

\* Filter.CreateChildScope: a new empty frame 0 in front of the frames of the parent
CreateChildScope ==
    /\ task = Idle
    /\ Len(tempViews) < MaxDepth
    /\ Settle(<<EmptyMap>> \o tempViews, cachedViews, views, fileInfos)
    /\ last' = Last("", "")
    /\ UNCHANGED <<task>>
    /\ UNCHANGED <<evalVars, sortVars, filterVars, lexVars, chainVars>>

\* the child filter goes out of use: its frame 0 goes with it
ExitChildScope ==
    /\ task = Idle
    /\ Len(tempViews) > 1
    /\ Settle(Tail(tempViews), cachedViews, views, fileInfos)
    /\ last' = Last("", "")
    /\ UNCHANGED <<task>>
    /\ UNCHANGED <<evalVars, sortVars, filterVars, lexVars, chainVars>>

\* a statement makes a view of n records on a FileInfo of its own
WithNewView(vs, fis, id, fid, path, temporary, n) ==
    [views |-> [vs EXCEPT ![id] = [Header |-> NewHeader, RecordSet |-> NewRecordSet(n),
                                    FileInfo |-> fid]],
     fileInfos |-> [fis EXCEPT ![fid] = [Path |-> path, IsTemporary |-> temporary,
                                         InitialHeader |-> NewHeader,
                                         InitialRecordSet |-> NewRecordSet(n)]]]

\* a statement declares a view: TemporaryViewScopes.Set of a new view
Set(path, temporary, n) ==
    /\ task = Idle
    /\ held = 0
    /\ Free(views, NoView) # {}
    /\ last' = Last("Set", ToUpper(path))
    /\ LET id == Lowest(Free(views, NoView))
           fid == Lowest(Free(fileInfos, NoInfo))
           heap == WithNewView(views, fileInfos, id, fid, path, temporary, n)
       IN Settle(ScopesSet(tempViews, heap.views, heap.fileInfos, id), cachedViews,
                 heap.views, heap.fileInfos)
    /\ UNCHANGED <<task>>
    /\ UNCHANGED <<evalVars, sortVars, filterVars, lexVars, chainVars>>

\* TemporaryViewScopes.Replace of a new view
ReplaceNew(path, temporary, n) ==
    /\ task = Idle
    /\ held = 0
    /\ Free(views, NoView) # {}
    /\ last' = Last("Replace", ToUpper(path))
    /\ LET id == Lowest(Free(views, NoView))
           fid == Lowest(Free(fileInfos, NoInfo))
           heap == WithNewView(views, fileInfos, id, fid, path, temporary, n)
       IN Settle(ScopesReplace(tempViews, heap.views, heap.fileInfos, id), cachedViews,
                 heap.views, heap.fileInfos)
    /\ UNCHANGED <<task>>
    /\ UNCHANGED <<evalVars, sortVars, filterVars, lexVars, chainVars>>

\* TemporaryViewScopes.Replace of the view the statement holds (statements put back
\* views fetched by Get, never the ones that carry the internal id column)
ReplaceHeld ==
    /\ task = Idle
    /\ held # 0
    /\ views[held].Header[1] # InternalIdColumn
    /\ last' = Last("Replace", ToUpper(Path(views, fileInfos, held)))
    /\ Settle(ScopesReplace(tempViews, views, fileInfos, held), cachedViews, views, fileInfos)
    /\ UNCHANGED <<task>>
    /\ UNCHANGED <<evalVars, sortVars, filterVars, lexVars, chainVars>>

\* ViewMap.Get handing out the stored *View itself
FetchStored(vs, src, id) == [views |-> vs, held |-> src]

\* ViewMap.Get: view.Copy(), a new View at a new address
Fetch(vs, src, id) == [views |-> [vs EXCEPT ![id] = ViewCopy(vs[src])], held |-> id]

\* TemporaryViewScopes.Get: the statement receives a copy
Get(name) ==
    /\ task = Idle
    /\ held = 0
    /\ ScopesGet(tempViews, name) # 0
    /\ Free(views, NoView) # {}
    /\ LET id == Lowest(Free(views, NoView)) IN
       /\ views' = Fetch(views, ScopesGet(tempViews, name), id).views
       /\ held' = Fetch(views, ScopesGet(tempViews, name), id).held
    /\ last' = Last("Get", ToUpper(name))
    /\ UNCHANGED <<tempViews, cachedViews, fileInfos, task, atStore>>
    /\ UNCHANGED <<evalVars, sortVars, filterVars, lexVars, chainVars>>

-----------------------------------------------------------------------------
(* Changes the statements make to a view they hold or have stored *)

\* a computed column is appended: one field to the header, one cell to every record
AppendColumn(v) ==
    [v EXCEPT !.Header = @ \o <<"c2">>,
              !.RecordSet = [i \in 1..Len(@) |-> @[i] \o <<Integer(20 + i)>>]]

\* the statement appends a column to the view it holds
AppendColumnHeld ==
    /\ task = Idle
    /\ held # 0
    /\ Len(views[held].Header) < MaxFields
    /\ views' = [views EXCEPT ![held] = AppendColumn(@)]
    /\ last' = Last("", "")
    /\ UNCHANGED <<tempViews, cachedViews, fileInfos, held, task, atStore>>
    /\ UNCHANGED <<evalVars, sortVars, filterVars, lexVars, chainVars>>

\* a statement appends a column to a stored view in place, through the pointer its maker kept
AppendColumnStored(d, key) ==
    /\ task = Idle
    /\ held = 0
    /\ d \in DOMAIN tempViews
    /\ tempViews[d][key] # 0
    /\ Len(views[tempViews[d][key]].Header) < MaxFields
    /\ views' = [views EXCEPT ![tempViews[d][key]] = AppendColumn(@)]
    /\ last' = Last("", "")
    /\ UNCHANGED <<tempViews, cachedViews, fileInfos, held, task, atStore>>
    /\ UNCHANGED <<evalVars, sortVars, filterVars, lexVars, chainVars>>

-----------------------------------------------------------------------------
(* Store and Restore *)

UncommittedAny(uncomittedViews, viewKey) == TRUE

\* the membership test of the loops: _, ok := uncomittedViews[viewKey]
Uncommitted(uncomittedViews, viewKey) == viewKey \in uncomittedViews

RECURSIVE StoreEach(_, _, _, _)
StoreEach(visit, uncomittedViews, vs, fis) ==
    IF visit = <<>> THEN fis
    ELSE LET e == Head(visit)
             fid == vs[e.id].FileInfo
         IN StoreEach(Tail(visit), uncomittedViews, vs,
                IF Uncommitted(uncomittedViews, e.key)
                THEN [fis EXCEPT ![fid].InitialRecordSet = RecordSetCopy(vs[e.id].RecordSet),
                                 ![fid].InitialHeader = HeaderCopy(vs[e.id].Header)]
                ELSE fis)

RECURSIVE RestoreEach(_, _, _, _)
RestoreEach(visit, uncomittedViews, vs, fis) ==
    IF visit = <<>> THEN vs
    ELSE LET e == Head(visit)
             fid == vs[e.id].FileInfo
         IN RestoreEach(Tail(visit), uncomittedViews,
                IF Uncommitted(uncomittedViews, e.key)
                THEN [vs EXCEPT ![e.id].RecordSet = RecordSetCopy(fis[fid].InitialRecordSet),
                                ![e.id].Header = HeaderCopy(fis[fid].InitialHeader)]
                ELSE vs,
                fis)

\* history: what each FileInfo's view looked like when Store covered it (the first
\* view visited, when several share the FileInfo)
RECURSIVE NoteEach(_, _, _, _)
NoteEach(visit, uncomittedViews, vs, noted) ==
    IF visit = <<>> THEN noted
    ELSE LET e == Head(visit)
             fid == vs[e.id].FileInfo
         IN NoteEach(Tail(visit), uncomittedViews, vs,
                IF e.key \in uncomittedViews /\ ~noted[fid].stored
                THEN [noted EXCEPT ![fid] = Content(vs[e.id])]
                ELSE noted)

UncommittedSets == (SUBSET {ToUpper(p) : p \in Paths}) \ {{}}

\* TemporaryViewScopes.Store
Store(uncomittedViews) ==
    /\ task = Idle
    /\ held = 0
    /\ \E d \in DOMAIN tempViews : \E k \in uncomittedViews : tempViews[d][k] # 0
    /\ fileInfos' = StoreEach(Visited(tempViews), uncomittedViews, views, fileInfos)
    /\ atStore' = NoteEach(Visited(tempViews), uncomittedViews, views,
                           [id \in ViewIds |->
                               IF \E e \in {Visited(tempViews)[i] : i \in DOMAIN Visited(tempViews)} :
                                      e.key \in uncomittedViews /\ views[e.id].FileInfo = id
                               THEN NoPoint ELSE atStore[id]])
    /\ last' = [Last("Store", "") EXCEPT !.keys = uncomittedViews]
    /\ UNCHANGED <<tempViews, cachedViews, views, held, task>>
    /\ UNCHANGED <<evalVars, sortVars, filterVars, lexVars, chainVars>>

\* TemporaryViewScopes.Restore
Restore(uncomittedViews) ==
    /\ task = Idle
    /\ held = 0
    /\ \E d \in DOMAIN tempViews : \E k \in uncomittedViews : tempViews[d][k] # 0
    /\ views' = RestoreEach(Visited(tempViews), uncomittedViews, views, fileInfos)
    /\ last' = [Last("Restore", "") EXCEPT !.keys = uncomittedViews]
    /\ UNCHANGED <<tempViews, cachedViews, fileInfos, held, task, atStore>>
    /\ UNCHANGED <<evalVars, sortVars, filterVars, lexVars, chainVars>>

-----------------------------------------------------------------------------
(* GetWithInternalId *)

HeaderWithoutId(h) == h

\* MergeHeader(NewHeaderWithId(...), ret.Header)
HeaderWithId(h) == <<InternalIdColumn>> \o h

RecordWithIdOneBased(record, index) == <<Integer(index + 1)>> \o record

\* the task of one record: append(Record{NewCell(value.NewInteger(int64(index)))}, record...)
RecordWithId(record, index) == <<Integer(index)>> \o record

\* ViewMap.GetWithInternalId up to the start of the tasks: the copy, its header
GetWithInternalIdBegin(name, number, cuts) ==
    /\ task = Idle
    /\ held = 0
    /\ ScopesGet(tempViews, name) # 0
    /\ Free(views, NoView) # {}
    /\ LET id == Lowest(Free(views, NoView))
           copy == ViewCopy(views[ScopesGet(tempViews, name)])
       IN /\ Len(copy.RecordSet) = cuts[number + 1]
          /\ views' = [views EXCEPT ![id] = [copy EXCEPT !.Header = HeaderWithId(@)]]
          /\ held' = id
    /\ task' = [thIdx \in 1..number |->
                  [next |-> RecordRange(cuts, thIdx).start, end |-> RecordRange(cuts, thIdx).end]]
    /\ last' = Last("GetWithInternalIdBegin", ToUpper(name))
    /\ UNCHANGED <<tempViews, cachedViews, fileInfos, atStore>>
    /\ UNCHANGED <<evalVars, sortVars, filterVars, lexVars, chainVars>>

\* one task of the manager's Run: fn(index) on the next index of a worker's range
Task(thIdx) ==
    /\ thIdx \in DOMAIN task
    /\ task[thIdx].next < task[thIdx].end
    /\ LET index == task[thIdx].next IN
       /\ views' = [views EXCEPT ![held].RecordSet[index + 1] = RecordWithId(@, index)]
       /\ last' = last
    /\ task' = [task EXCEPT ![thIdx].next = @ + 1]
    /\ UNCHANGED <<tempViews, cachedViews, fileInfos, held, atStore>>
    /\ UNCHANGED <<evalVars, sortVars, filterVars, lexVars, chainVars>>

\* Run returns once every task is done: the statement receives the copy
GetWithInternalIdEnd ==
    /\ task # Idle
    /\ \A thIdx \in DOMAIN task : task[thIdx].next = task[thIdx].end
    /\ task' = Idle
    /\ last' = Last("GetWithInternalId", last.name)
    /\ UNCHANGED <<tempViews, cachedViews, views, fileInfos, held, atStore>>
    /\ UNCHANGED <<evalVars, sortVars, filterVars, lexVars, chainVars>>

\* the statement drops the view it holds
Release ==
    /\ task = Idle
    /\ held # 0
    /\ Settle(tempViews, cachedViews, views, fileInfos)
    /\ last' = Last("", "")
    /\ UNCHANGED <<task>>
    /\ UNCHANGED <<evalVars, sortVars, filterVars, lexVars, chainVars>>

-----------------------------------------------------------------------------
(* The frames of the scope stack under declarations, replacements and reads *)

ScopeNext ==
    \/ CreateChildScope
    \/ ExitChildScope
    \/ \E path \in Paths : Set(path, TRUE, 1)
    \/ \E path \in Paths : ReplaceNew(path, TRUE, MaxRows)
    \/ ReplaceHeld
    \/ \E name \in Names : Get(name)
    \/ AppendColumnHeld
    \/ Release

SpecScope == Init /\ [][ScopeNext]_vars

-----------------------------------------------------------------------------
(* The views of a transaction: changes, restore points, internal ids *)

\* a statement declares a view under a name no frame holds yet
Declare == \E path \in Paths : ~ScopesExists(tempViews, path) /\ Set(path, TRUE, MaxRows)

StoreNext ==
    \/ CreateChildScope
    \/ Declare
    \/ \E name \in Names : Get(name)
    \/ AppendColumnHeld
    \/ ReplaceHeld
    \/ Release
    \/ \E d \in 1..MaxDepth : \E key \in Keys : AppendColumnStored(d, key)
    \/ \E uncomittedViews \in UncommittedSets : Store(uncomittedViews)
    \/ \E uncomittedViews \in UncommittedSets : Restore(uncomittedViews)
    \/ \E name \in Names : \E number \in 1..MaxCPU : \E cuts \in Cuts(MaxRows, number) :
           GetWithInternalIdBegin(name, number, cuts)
    \/ \E thIdx \in 1..MaxCPU : Task(thIdx)
    \/ GetWithInternalIdEnd

SpecStore == Init /\ [][StoreNext]_vars

-----------------------------------------------------------------------------
(* Temporary views and the views of files held through the container *)

\* what a frame shows under a key: the content of the view stored there
NoShown == [Header |-> <<>>, RecordSet |-> <<>>, Path |-> "", IsTemporary |-> FALSE]

Shown(vs, fis, id) ==
    IF id = 0 THEN NoShown
    ELSE [Header |-> vs[id].Header, RecordSet |-> vs[id].RecordSet,
          Path |-> fis[vs[id].FileInfo].Path, IsTemporary |-> fis[vs[id].FileInfo].IsTemporary]

StackNow == [d \in DOMAIN tempViews |-> [k \in Keys |-> Shown(views, fileInfos, tempViews[d][k])]]

\* a view of a file disposed of like a temporary one
DisposeTemporaryTableOkAnyView(m, vs, fis, name) == m[ToUpper(name)] # 0

\* ViewMap.DisposeTemporaryTable succeeds: the name is held and its view is temporary
DisposeTemporaryTableOk(m, vs, fis, name) ==
    m[ToUpper(name)] # 0 /\ fis[vs[m[ToUpper(name)]].FileInfo].IsTemporary

\* ViewMap.DisposeTemporaryTable
DisposeTemporaryTable(m, vs, fis, name) ==
    IF DisposeTemporaryTableOk(m, vs, fis, name) THEN [m EXCEPT ![ToUpper(name)] = 0] ELSE m

RECURSIVE ScopesDisposeFrom(_, _, _, _, _)
ScopesDisposeFrom(list, vs, fis, name, d) ==
    IF d > Len(list) THEN list
    ELSE IF DisposeTemporaryTableOk(list[d], vs, fis, name)
         THEN [list EXCEPT ![d] = DisposeTemporaryTable(list[d], vs, fis, name)]
         ELSE ScopesDisposeFrom(list, vs, fis, name, d + 1)

\* TemporaryViewScopes.Dispose: nil or the UndeclaredTemporaryTable error
ScopesDisposeOk(list, vs, fis, name) ==
    \E d \in DOMAIN list : DisposeTemporaryTableOk(list[d], vs, fis, name)
ScopesDispose(list, vs, fis, name) == ScopesDisposeFrom(list, vs, fis, name, 1)

\* ViewMap.Dispose; closeFails: container.Close returns an error for the handler
ViewMapDisposeError(m, name, closeFails) == m[ToUpper(name)] # 0 /\ closeFails
ViewMapDispose(m, name, closeFails) ==
    IF m[ToUpper(name)] # 0 /\ ~closeFails THEN [m EXCEPT ![ToUpper(name)] = 0] ELSE m

\* ViewMap.Clean; order: the order in which the range loop yields the keys,
\* failing: the keys whose handler the container fails to close
RECURSIVE ViewMapClean(_, _, _)
ViewMapClean(m, order, failing) ==
    IF order = <<>> THEN [m |-> m, err |-> FALSE]
    ELSE IF ViewMapDisposeError(m, Head(order), Head(order) \in failing)
         THEN [m |-> m, err |-> TRUE]
         ELSE ViewMapClean(ViewMapDispose(m, Head(order), FALSE), Tail(order), failing)

\* what container.CloseWithErrors returns for the handler of the view under
\* key: the release errors of a ForcedUnlockError (none: nil)
ReleaseErrors(key, n) == [i \in 1..n |-> [handler |-> key, release |-> i]]

\* the errors of the last view only
AppendErrorsLastOnly(errs, more) == IF more = <<>> THEN errs ELSE more

\* errs = append(errs, err.(*file.ForcedUnlockError).Errors...)
AppendErrors(errs, more) == errs \o more

\* ViewMap.CleanWithErrors; order: the order in which the range loop yields the
\* keys, released: per key, the number of release errors of its handler
RECURSIVE CleanWithErrorsFrom(_, _, _, _, _)
CleanWithErrorsFrom(m, order, released, closed, errs) ==
    IF order = <<>> THEN [m |-> m, closed |-> closed, errs |-> errs]
    ELSE LET k == Head(order) IN
         IF m[k] # 0
         THEN CleanWithErrorsFrom([m EXCEPT ![k] = 0], Tail(order), released,
                                  Append(closed, k),
                                  AppendErrors(errs, ReleaseErrors(k, released[k])))
         ELSE CleanWithErrorsFrom(m, Tail(order), released, closed, errs)

NoForcedUnlockError == [nil |-> TRUE]
NewForcedUnlockError(errs) == [type |-> "ForcedUnlockError", Errors |-> errs]

ViewMapCleanWithErrors(m, order, released) ==
    LET out == CleanWithErrorsFrom(m, order, released, <<>>, <<>>)
    IN [m |-> out.m, closed |-> out.closed,
        err |-> IF out.errs # <<>> THEN NewForcedUnlockError(out.errs) ELSE NoForcedUnlockError]

Held(m) == {k \in Keys : m[k] # 0}
Orders(S) == {order \in [1..Cardinality(S) -> S] : \A i, j \in 1..Cardinality(S) : order[i] = order[j] => i = j}

\* a statement declares a view under a path the container holds no file of
DeclareTemp ==
    \E path \in Paths : \E temporary \in BOOLEAN :
        /\ ~ViewMapExists(cachedViews, path)
        /\ Set(path, temporary, 1)

\* a statement loads the file at a path no frame holds a view of: cachedViews.Set
LoadFile(path) ==
    /\ task = Idle
    /\ held = 0
    /\ ~ScopesExists(tempViews, path)
    /\ Free(views, NoView) # {}
    /\ LET id == Lowest(Free(views, NoView))
           fid == Lowest(Free(fileInfos, NoInfo))
           heap == WithNewView(views, fileInfos, id, fid, path, FALSE, 1)
       IN Settle(tempViews, ViewMapSet(cachedViews, heap.views, heap.fileInfos, id),
                 heap.views, heap.fileInfos)
    /\ last' = Last("Load", ToUpper(path))
    /\ UNCHANGED <<task>>
    /\ UNCHANGED <<evalVars, sortVars, filterVars, lexVars, chainVars>>

\* a statement writes a file back: cachedViews.Replace of a new view
ReplaceFile(path) ==
    /\ task = Idle
    /\ held = 0
    /\ Free(views, NoView) # {}
    /\ LET id == Lowest(Free(views, NoView))
           fid == Lowest(Free(fileInfos, NoInfo))
           heap == WithNewView(views, fileInfos, id, fid, path, FALSE, MaxRows)
       IN Settle(tempViews, ViewMapReplace(cachedViews, heap.views, heap.fileInfos, id),
                 heap.views, heap.fileInfos)
    /\ last' = Last("ReplaceFile", ToUpper(path))
    /\ UNCHANGED <<task>>
    /\ UNCHANGED <<evalVars, sortVars, filterVars, lexVars, chainVars>>

\* TemporaryViewScopes.Dispose
DisposeTemp(name) ==
    /\ task = Idle
    /\ held = 0
    /\ Settle(ScopesDispose(tempViews, views, fileInfos, name), cachedViews, views, fileInfos)
    /\ last' = [op |-> IF ScopesDisposeOk(tempViews, views, fileInfos, name)
                       THEN "Dispose" ELSE "UndeclaredTemporaryTable",
                name |-> ToUpper(name), keys |-> {}, arg |-> name, before |-> StackNow]
    /\ UNCHANGED <<task>>
    /\ UNCHANGED <<evalVars, sortVars, filterVars, lexVars, chainVars>>

\* cachedViews.Dispose(container, name)
DisposeFile(name, closeFails) ==
    /\ task = Idle
    /\ held = 0
    /\ Settle(tempViews, ViewMapDispose(cachedViews, name, closeFails), views, fileInfos)
    /\ last' = Last(IF ViewMapDisposeError(cachedViews, name, closeFails)
                    THEN "CloseError" ELSE "DisposeFile", ToUpper(name))
    /\ UNCHANGED <<task>>
    /\ UNCHANGED <<evalVars, sortVars, filterVars, lexVars, chainVars>>

\* cachedViews.Clean(container)
Clean(order, failing) ==
    /\ task = Idle
    /\ held = 0
    /\ Settle(tempViews, ViewMapClean(cachedViews, order, failing).m, views, fileInfos)
    /\ last' = Last(IF ViewMapClean(cachedViews, order, failing).err THEN "CloseError" ELSE "Clean", "")
    /\ UNCHANGED <<task>>
    /\ UNCHANGED <<evalVars, sortVars, filterVars, lexVars, chainVars>>

\* cachedViews.CleanWithErrors(container)
CleanWithErrors(order, released) ==
    /\ task = Idle
    /\ held = 0
    /\ Cardinality({e \in [handler : DOMAIN released, release : 1..MaxErrors] :
                        e.release <= released[e.handler]}) <= MaxErrors
    /\ LET out == ViewMapCleanWithErrors(cachedViews, order, released)
       IN /\ Settle(tempViews, out.m, views, fileInfos)
          /\ last' = [op |-> IF out.err # NoForcedUnlockError
                             THEN "ForcedUnlockError" ELSE "CleanWithErrors",
                      name |-> "", keys |-> {},
                      stored |-> Held(cachedViews), released |-> released,
                      closed |-> out.closed, err |-> out.err]
    /\ UNCHANGED <<task>>
    /\ UNCHANGED <<evalVars, sortVars, filterVars, lexVars, chainVars>>

CacheNext ==
    \/ CreateChildScope
    \/ ExitChildScope
    \/ DeclareTemp
    \/ \E path \in Paths : ReplaceNew(path, TRUE, MaxRows)
    \/ \E name \in Names : DisposeTemp(name)
    \/ \E path \in Paths : LoadFile(path)
    \/ \E path \in Paths : ReplaceFile(path)
    \/ \E name \in Names : \E closeFails \in BOOLEAN : DisposeFile(name, closeFails)
    \/ \E order \in Orders(Held(cachedViews)) : \E failing \in SUBSET Held(cachedViews) :
           Clean(order, failing)

SpecCache == Init /\ [][CacheNext]_vars

\* the files held through the container beside the views of one frame, and
\* their release at the end
CleanNext ==
    \/ DeclareTemp
    \/ \E path \in Paths : LoadFile(path)
    \/ \E path \in Paths : ReplaceFile(path)
    \/ \E name \in Names : \E closeFails \in BOOLEAN : DisposeFile(name, closeFails)
    \/ \E order \in Orders(Held(cachedViews)) :
           \E released \in [Held(cachedViews) -> 0..MaxErrors] : CleanWithErrors(order, released)

SpecClean == Init /\ [][CleanNext]_vars

EvalNext ==
    \/ CallAny
    \/ canUseMultithreadingSkip
    \/ canUseMultithreadingBegin
    \/ canUseMultithreadingEnd
    \/ DispatchAny
    \/ WorkerNextAny
    \/ WorkerCallAny
    \/ Wait
    \/ Sequential
    \/ Cancel

SpecEval == Init /\ [][EvalNext]_vars

\* the scheduler runs every goroutine that can take a step: the workers, and
\* the caller blocked in gm.Wait()
SpecEvalFair ==
    /\ Init
    /\ [][EvalNext]_vars
    /\ \A thIdx \in 1..MaxCPU : WF_vars(WorkerNext(thIdx)) /\ WF_vars(WorkerCall(thIdx))
    /\ WF_vars(Wait)

SpecSort == Init /\ [][SortNext]_vars

SpecFilter == Init /\ [][FilterNext]_vars

SpecLex == Init /\ [][LexNext]_vars

SpecChain == Init /\ [][ChainNext]_vars

-----------------------------------------------------------------------------
(* Forced sequential evaluation: the callback on records 0..N-1 in order *)

RECURSIVE ForcedSequential(_, _, _)
ForcedSequential(index, vs, res) ==
    IF Len(recordSet) <= index
    THEN [ret |-> NoErr, results |-> res, variables |-> vs]
    ELSE LET r == fn(FALSE, vs, FilterRecord(RecordSetView(recordSet), index), index) IN
         IF r.err # NoErr
         THEN [ret |-> r.err, results |-> res, variables |-> r.variables]
         ELSE ForcedSequential(index + 1, r.variables, [res EXCEPT ![index + 1] = r.val])

Observed == [ret |-> ret, results |-> results, variables |-> variables]

-----------------------------------------------------------------------------
(* C1..C3: EvaluateSequentially *)

\* C1 (as claimed): a call on an expression that contains a VariableSubstitution,
\* returning without error and without cancellation, leaves the per-record
\* results and the variable as the forced sequential evaluation over records
\* 0..N-1 starting from the initial variable value does.
C1_SubstitutionEvaluatesAsSequential ==
    (pc = "done" /\ ContainsSubstitution(expr) /\ ~ctxErr /\ ret = NoErr)
        => Observed = ForcedSequential(0, FALSE_, [i \in 1..Len(recordSet) |-> NoResult])

\* C2 (as claimed): the parallel branch returns the first error stored in the
\* set-once slot, also when the context is cancelled, and no worker begins a
\* callback once the slot is set.
C2_NoCallbackAfterError ==
    /\ (stored # <<>>) => gm.err = stored[1]
    /\ (pc = "done" /\ route = "parallel" /\ stored # <<>>) => (ret # NoErr /\ ret = stored[1])
    /\ \A thIdx \in DOMAIN lateCalls : lateCalls[thIdx] = 0

\* C2 (amended): the parallel branch returns the first error stored in the
\* set-once slot, also when the context is cancelled, and once the slot is set
\* each worker begins at most one further callback (the one whose check of the
\* slot had already passed).
C2_AtMostOneCallbackAfterError ==
    /\ (stored # <<>>) => gm.err = stored[1]
    /\ (pc = "done" /\ route = "parallel" /\ stored # <<>>) => (ret # NoErr /\ ret = stored[1])
    /\ \A thIdx \in DOMAIN lateCalls : lateCalls[thIdx] <= 1

C2_Witness ==
    /\ pc = "done"
    /\ route = "parallel"
    /\ ctxErr
    /\ Len(stored) >= 2
    /\ ret = stored[1]
    /\ \E thIdx \in DOMAIN lateCalls : lateCalls[thIdx] = 1

\* C3: the sentinel is never returned to the caller nor handed to the error
\* slot, and the flag is set only while canUseMultithreading runs.
C3_SentinelStaysInside ==
    /\ (pc # "check") => ~checkAvailableParallelRoutine
    /\ ret.type # "ContainsSubstitusion"
    /\ \A i \in DOMAIN stored : stored[i].type # "ContainsSubstitusion"

C3_Witness ==
    /\ pc = "done"
    /\ route = "sequential"
    /\ expr = Flip
    /\ Len(recordSet) = MaxRecords
    /\ ret = NoErr
    /\ \A i \in DOMAIN results : results[i] # NoResult

-----------------------------------------------------------------------------
(* What the scope stack shows: per frame and key, the view stored there *)

NewShown(path, n) ==
    [Header |-> NewHeader, RecordSet |-> NewRecordSet(n), Path |-> path, IsTemporary |-> TRUE]

Holds(d, key) == tempViews[d][key] # 0
IsFirstHolding(d, key) == Holds(d, key) /\ \A e \in 1..(d - 1) : ~Holds(e, key)
IsLastHolding(d, key) == Holds(d, key) /\ \A e \in (d + 1)..Len(tempViews) : ~Holds(e, key)
BoundInSeveral(key) == Cardinality({d \in DOMAIN tempViews : Holds(d, key)}) > 1

\* the stack after a Replace of a view shown as v, as C4 states it
AfterReplace(key, v) ==
    [d \in DOMAIN tempViews |->
        [k \in Keys |-> IF k = key /\ IsFirstHolding(d, k) THEN v ELSE StackNow[d][k]]]

\* C4: Set stores the view under its upper-cased path in frame 0 and leaves every other
\* frame as it was; Replace overwrites the entry of the first frame, from frame 0
\* outward, that holds the key, leaves every other frame as it was, and changes
\* nothing when no frame holds the key.
C4_SetAndReplaceFrames ==
    [][/\ \A path \in Paths : \A n \in 1..MaxRows :
            Set(path, TRUE, n) =>
                /\ Len(tempViews') = Len(tempViews)
                /\ StackNow'[1][ToUpper(path)] = NewShown(path, n)
                /\ \A d \in 2..Len(tempViews) : StackNow'[d] = StackNow[d]
       /\ \A path \in Paths : \A n \in 1..MaxRows :
            ReplaceNew(path, TRUE, n) => StackNow' = AfterReplace(ToUpper(path), NewShown(path, n))
       /\ ReplaceHeld =>
            StackNow' = AfterReplace(ToUpper(Path(views, fileInfos, held)), Shown(views, fileInfos, held))
      ]_vars

\* a Replace has just overwritten the entry of an outer frame, frame 0 not holding the key
C4_Witness ==
    /\ last.op = "Replace"
    /\ Len(tempViews) > 1
    /\ ~Holds(1, last.name)
    /\ Holds(2, last.name)
    /\ Len(views[tempViews[2][last.name]].RecordSet) = MaxRows
    /\ Holds(1, "U")

\* C5 as the claim states it: when a name is bound in several frames, Replace
\* overwrites the outermost frame that holds it and leaves the inner bindings alone.
C5_ReplaceReachesOutermost ==
    [][\A path \in Paths : \A n \in 1..MaxRows :
          ReplaceNew(path, TRUE, n) /\ BoundInSeveral(ToUpper(path)) =>
              \A d \in DOMAIN tempViews :
                  IsLastHolding(d, ToUpper(path)) =>
                      /\ StackNow'[d][ToUpper(path)] = NewShown(path, n)
                      /\ \A e \in 1..(d - 1) : StackNow'[e][ToUpper(path)] = StackNow[e][ToUpper(path)]
      ]_vars

\* C5 amended: when a name is bound in several frames, Replace overwrites the
\* innermost frame that holds it (the first from frame 0) and leaves the bindings of
\* the name in the outer frames alone.
C5_ReplaceReachesInnermost ==
    [][/\ \A path \in Paths : \A n \in 1..MaxRows :
            ReplaceNew(path, TRUE, n) /\ BoundInSeveral(ToUpper(path)) =>
                \A d \in DOMAIN tempViews :
                    IsFirstHolding(d, ToUpper(path)) =>
                        /\ StackNow'[d][ToUpper(path)] = NewShown(path, n)
                        /\ \A e \in (d + 1)..Len(tempViews) :
                               StackNow'[e][ToUpper(path)] = StackNow[e][ToUpper(path)]
       /\ ReplaceHeld /\ BoundInSeveral(ToUpper(Path(views, fileInfos, held))) =>
            \A d \in DOMAIN tempViews :
                IsFirstHolding(d, ToUpper(Path(views, fileInfos, held))) =>
                    /\ StackNow'[d][ToUpper(Path(views, fileInfos, held))] = Shown(views, fileInfos, held)
                    /\ \A e \in (d + 1)..Len(tempViews) :
                           StackNow'[e][ToUpper(Path(views, fileInfos, held))]
                               = StackNow[e][ToUpper(Path(views, fileInfos, held))]
      ]_vars

\* a Replace has just overwritten the inner of two bindings of a name: the inner one
\* is the replacement, the outer one still the declared view
C5_Witness ==
    /\ last.op = "Replace"
    /\ Len(tempViews) > 1
    /\ Holds(1, last.name)
    /\ Holds(2, last.name)
    /\ Len(views[tempViews[1][last.name]].RecordSet) = MaxRows
    /\ Len(views[tempViews[2][last.name]].RecordSet) = 1

\* the addresses the frames hold
StoredIds == UNION {{tempViews[d][k] : k \in Keys} : d \in DOMAIN tempViews} \ {0}

\* C6: Get hands out a copy, at an address of its own, of the view of the innermost
\* frame that holds the upper-cased name; Get leaves every frame as it was; a change
\* made afterwards to the copy (a column appended) leaves every stored view, and so
\* what a later Get returns, as it was.
C6_GetReturnsCopyOfInnermost ==
    [][/\ \A name \in Names :
            Get(name) =>
                /\ \E d \in DOMAIN tempViews :
                       /\ IsFirstHolding(d, ToUpper(name))
                       /\ Shown(views', fileInfos', held') = StackNow[d][ToUpper(name)]
                /\ held' \notin StoredIds'
                /\ StackNow' = StackNow
       /\ AppendColumnHeld => StackNow' = StackNow
      ]_vars

\* a statement holds a copy of the inner of two bindings of a name and has appended
\* a column to it; the stored views still have the one column they were declared with
C6_Witness ==
    /\ held # 0
    /\ held \notin StoredIds
    /\ Len(tempViews) > 1
    /\ Holds(1, "T")
    /\ Holds(2, "T")
    /\ views[held].FileInfo = views[tempViews[1]["T"]].FileInfo
    /\ views[held].FileInfo # views[tempViews[2]["T"]].FileInfo
    /\ Len(views[held].Header) = Len(NewHeader) + 1
    /\ Len(views[tempViews[1]["T"]].Header) = Len(NewHeader)

\* the slots of the frames whose key is in (or out of) an uncommitted set
Slots == {s \in (DOMAIN tempViews) \X Keys : tempViews[s[1]][s[2]] # 0}
StoredView(s) == views[tempViews[s[1]][s[2]]]

\* C7: after Restore(U) every view of any frame whose key is in U has the header and
\* the records it had when Store last covered it, whatever was done to the stored
\* views in between; a view whose key is not in U is left as it was by Store and by
\* Restore.
C7_RestoreReturnsToStore ==
    [][\A uncomittedViews \in UncommittedSets :
          /\ Restore(uncomittedViews) =>
                /\ tempViews' = tempViews
                /\ \A s \in Slots :
                       IF s[2] \in uncomittedViews
                       THEN atStore[StoredView(s).FileInfo].stored =>
                                Content(StoredView(s)') = atStore[StoredView(s).FileInfo]
                       ELSE StoredView(s)' = StoredView(s)
          /\ Store(uncomittedViews) =>
                /\ tempViews' = tempViews
                /\ \A s \in Slots : StoredView(s)' = StoredView(s)
      ]_vars

\* a Restore has just brought a view changed since its Store back to what it was,
\* and has left alone a changed view of another key
C7_Witness ==
    /\ last.op = "Restore"
    /\ \E s \in Slots :
           /\ s[2] \in last.keys
           /\ atStore[StoredView(s).FileInfo].stored
           /\ Len(StoredView(s).Header) = Len(NewHeader)
    /\ \E s \in Slots :
           /\ s[2] \notin last.keys
           /\ Len(StoredView(s).Header) > Len(NewHeader)
           /\ Len(fileInfos[StoredView(s).FileInfo].InitialHeader) = Len(NewHeader)

\* each record of a view has as many cells as the header has fields
WellShaped(header, recordset) == \A i \in DOMAIN recordset : Len(recordset[i]) = Len(header)

\* C8: once an operation has returned, every view (stored in a frame or held by the
\* statement) has in each record exactly as many cells as its header has fields.
C8_RecordsMatchHeader ==
    task = Idle => \A id \in StoredIds \cup ({held} \ {0}) : WellShaped(views[id].Header, views[id].RecordSet)

\* GetWithInternalId has returned a view of several records that carries the internal
\* id column in front of the declared column and a column appended earlier
C8_Witness ==
    /\ task = Idle
    /\ last.op = "GetWithInternalId"
    /\ held # 0
    /\ views[held].Header[1] = InternalIdColumn
    /\ Len(views[held].Header) = MaxFields + 1
    /\ Len(views[held].RecordSet) > 1

\* C9: GetWithInternalId returns a copy in which record i is the Integer i followed by
\* the cells of the stored record i, whatever the number of tasks and their ranges;
\* the stored views keep their headers and records; each task writes the record at
\* its own index and nothing else.
C9_InternalIdPerRecord ==
    [][/\ GetWithInternalIdEnd =>
            \E d \in DOMAIN tempViews :
                /\ IsFirstHolding(d, last.name)
                /\ held' = held
                /\ views'[held].FileInfo = StoredView(<<d, last.name>>).FileInfo
                /\ views'[held].Header = <<InternalIdColumn>> \o StoredView(<<d, last.name>>).Header
                /\ Len(views'[held].RecordSet) = Len(StoredView(<<d, last.name>>).RecordSet)
                /\ \A i \in 0..(Len(StoredView(<<d, last.name>>).RecordSet) - 1) :
                       views'[held].RecordSet[i + 1]
                           = <<Integer(i)>> \o StoredView(<<d, last.name>>).RecordSet[i + 1]
                /\ StackNow' = StackNow
       /\ \A thIdx \in 1..MaxCPU :
            Task(thIdx) =>
                /\ StackNow' = StackNow
                /\ \A id \in ViewIds : \A i \in DOMAIN views[id].RecordSet :
                       (id # held \/ i # task[thIdx].next + 1) => views'[id].RecordSet[i] = views[id].RecordSet[i]
                /\ \A id \in ViewIds : views'[id].Header = views[id].Header
       /\ last'.op = "GetWithInternalIdBegin" => StackNow' = StackNow
      ]_vars

\* as many tasks as there are processors have all finished on a view of several records
C9_Witness ==
    /\ task # Idle
    /\ Len(task) = MaxCPU
    /\ \A thIdx \in DOMAIN task : task[thIdx].next = task[thIdx].end
    /\ \A thIdx \in DOMAIN task : task[thIdx].end > 0
    /\ \A i \in DOMAIN views[held].RecordSet : views[held].RecordSet[i][1] = Integer(i - 1)
    /\ Len(views[held].RecordSet) = MaxRows

-----------------------------------------------------------------------------
(* SortValue.Less and SortValues.Less *)

\* C11: for every pair of SortValues a and b of any kinds, a.Less(b) and
\* b.Less(a) are never both TRUE (they may both be UNKNOWN).
C11_LessNeverTrueBothWays ==
    less.called =>
        \A i \in DOMAIN values : ~(less.forth[i] = 1 /\ less.back[i] = 1)

\* C11 witness: an Integer and a Float compared both ways, TRUE one way and FALSE the other
C11_Witness ==
    /\ less.called
    /\ values[1].Type = IntegerType
    /\ compareValues[1].Type = FloatType
    /\ less.forth[1] = 1
    /\ less.back[1] = -1

\* the field SortValue.Less compares for a pair of kinds ("" when it compares none)
ComparedField(a, b) ==
    CASE a.Type = IntegerType /\ b.Type = IntegerType -> "Integer"
      [] a.Type \in {IntegerType, FloatType} /\ b.Type \in {IntegerType, FloatType} -> "Float"
      [] /\ a.Type \in {IntegerType, FloatType, DatetimeType}
         /\ b.Type \in {IntegerType, FloatType, DatetimeType} -> "Datetime"
      [] /\ a.Type \in {IntegerType, FloatType, StringType}
         /\ b.Type \in {IntegerType, FloatType, StringType} -> "String"
      [] OTHER -> ""

EqualOnComparedField(a, b) ==
    CASE ComparedField(a, b) = "Integer" -> a.Integer = b.Integer
      [] ComparedField(a, b) = "Float" -> a.Float = b.Float
      [] ComparedField(a, b) = "Datetime" -> a.Datetime = b.Datetime
      [] ComparedField(a, b) = "String" -> a.String = b.String
      [] OTHER -> FALSE

\* C12: whenever the two SortValues compared by Less are equal on the field
\* used for the comparison, Less returns UNKNOWN and never FALSE, for pairs
\* of the same kind and for pairs of mixed kinds.
C12_EqualIsUnknown ==
    less.called =>
        \A i \in DOMAIN values :
            EqualOnComparedField(values[i], compareValues[i]) =>
                less.forth[i] = 0 /\ less.back[i] = 0

Decides(i) ==
    \/ less.forth[i] # 0
    \/ (values[i].Type = NullType) # (compareValues[i].Type = NullType)

Deciding == {i \in DOMAIN values : Decides(i)}

FirstDeciding == CHOOSE i \in Deciding : \A j \in Deciding : i <= j

\* C13: SortValues.Less is decided by the first key at which the per-key Less
\* is not UNKNOWN (true exactly when it is TRUE under ASC, exactly when it is
\* FALSE under DESC) or exactly one of the two values is Null (the Null side
\* first under FIRST, last under LAST, whatever the direction); a Null is not
\* consulted at a key whose Less is not UNKNOWN; when every key ties the
\* result is false.
C13_FirstDecidingKey ==
    less.called =>
        less.result =
            IF Deciding = {} THEN FALSE
            ELSE LET i == FirstDeciding IN
                 IF less.forth[i] # 0
                 THEN \/ directions[i] = ASC /\ less.forth[i] = 1
                      \/ directions[i] = DESC /\ less.forth[i] = -1
                 ELSE \/ values[i].Type = NullType /\ nullPositions[i] = FIRST
                      \/ compareValues[i].Type = NullType /\ nullPositions[i] = LAST

\* C13 witness: the first key ties, the second has a Null on the receiver's
\* side only, under DESC and FIRST, and Less answers true
C13_Witness ==
    /\ less.called
    /\ Len(values) = 2
    /\ less.forth[1] = 0
    /\ values[1].Type = IntegerType
    /\ compareValues[1].Type = IntegerType
    /\ values[2].Type = NullType
    /\ compareValues[2].Type = IntegerType
    /\ directions[2] = DESC
    /\ nullPositions[2] = FIRST
    /\ less.result

-----------------------------------------------------------------------------
(* Filter.Evaluate: the expression variants *)

\* an operand of the evaluated expression, evaluated on the same filter from the
\* variables vs
Operand(x, vs) ==
    Evaluate(Context(ctxErr, replaceValues), checkAvailableParallelRoutine, records, vs, x)

Evaluated(type) == evaluated.called /\ ~ctxErr /\ evaluated.expr.type = type

\* the truth tables of Kleene's AND and OR over 1 (TRUE), 0 (UNKNOWN), -1 (FALSE)
KleeneAnd(a, b) == IF a = -1 \/ b = -1 THEN -1 ELSE IF a = 0 \/ b = 0 THEN 0 ELSE 1
KleeneOr(a, b) == IF a = 1 \/ b = 1 THEN 1 ELSE IF a = 0 \/ b = 0 THEN 0 ELSE -1

\* C14: a Logic node gives AND(FALSE, X) = FALSE and OR(TRUE, X) = TRUE for every
\* right operand X, also one that would raise an error or assign a variable: X
\* is not evaluated then; in every other case the result is the Kleene AND/OR of
\* the ternary values of the two operands.
C14_LogicShortCircuit ==
    Evaluated("Logic") =>
        LET e == evaluated.expr
            l == ToTernary(e.LHS.Value)
            rhs == Operand(e.RHS, evaluated.before)
        IN IF e.Operator = "AND" /\ l = -1
           THEN evaluated.val = FALSE_ /\ evaluated.err = NoError
                /\ variables = evaluated.before
           ELSE IF e.Operator = "OR" /\ l = 1
           THEN evaluated.val = TRUE_ /\ evaluated.err = NoError
                /\ variables = evaluated.before
           ELSE IF rhs.err # NoError
           THEN evaluated.err = rhs.err
           ELSE /\ evaluated.err = NoError
                /\ variables = rhs.variables
                /\ evaluated.val =
                       Ternary(IF e.Operator = "AND" THEN KleeneAnd(l, ToTernary(rhs.val))
                               ELSE KleeneOr(l, ToTernary(rhs.val)))

\* C14 witness: FALSE AND (@a := !@a) has given FALSE and @a is as before, and
\* so has FALSE AND <a field that does not exist> without an error
C14_Witness ==
    /\ Evaluated("Logic")
    /\ evaluated.expr.Operator = "AND"
    /\ evaluated.expr.LHS = PrimitiveType(FALSE_)
    /\ evaluated.expr.RHS \in {Flip, FieldReference("c9")}
    /\ evaluated.val = FALSE_
    /\ evaluated.err = NoError
    /\ variables = evaluated.before

\* C15: an Arithmetic node with a Null operand on either side yields Null and a
\* Comparison node with a Null on either side yields UNKNOWN; when the left
\* operand is the Null one, the right operand is not evaluated at all.
C15_NullPropagates ==
    (Evaluated("Arithmetic") \/ Evaluated("Comparison")) =>
        LET e == evaluated.expr
            lhs == Operand(e.LHS, evaluated.before)
            rhs == Operand(e.RHS, lhs.variables)
            nullOut == IF e.type = "Arithmetic" THEN Null ELSE UNKNOWN_
        IN lhs.err = NoError =>
               /\ IsNull(lhs.val) =>
                      /\ evaluated.val = nullOut
                      /\ evaluated.err = NoError
                      /\ variables = evaluated.before
               /\ (~IsNull(lhs.val) /\ rhs.err = NoError /\ IsNull(rhs.val)) =>
                      /\ evaluated.val = nullOut
                      /\ evaluated.err = NoError

\* C15 witness: a field holding Null plus (@a := !@a) has given Null, @a as before
C15_Witness ==
    /\ Evaluated("Arithmetic")
    /\ evaluated.expr.LHS = FieldReference("c1")
    /\ evaluated.expr.RHS = Flip
    /\ evaluated.val = Null
    /\ evaluated.err = NoError
    /\ variables = evaluated.before

\* C16: a subquery in scalar position evaluates to a value only when its view
\* has exactly one column and at most one row: no row gives Null, one row its
\* single cell, more than one column SubqueryTooManyFields, more than one row
\* SubqueryTooManyRecords, the columns being checked before the rows.
C16_ScalarSubquery ==
    (Evaluated("Subquery") /\ evaluated.expr.Query.err = NoError) =>
        LET view == evaluated.expr.Query.view
            fields == Len(view.Header)
            rows == Len(view.RecordSet)
        IN /\ fields > 1 => evaluated.err = "SubqueryTooManyFields"
           /\ (fields = 1 /\ rows > 1) => evaluated.err = "SubqueryTooManyRecords"
           /\ (fields = 1 /\ rows = 0) => evaluated.err = NoError /\ evaluated.val = Null
           /\ (fields = 1 /\ rows = 1) =>
                  evaluated.err = NoError /\ evaluated.val = view.RecordSet[1][1]
           /\ evaluated.err = NoError => fields = 1 /\ rows <= 1

\* C16 witness: a subquery of two columns and two rows has raised SubqueryTooManyFields
C16_Witness ==
    /\ Evaluated("Subquery")
    /\ Len(evaluated.expr.Query.view.Header) = 2
    /\ Len(evaluated.expr.Query.view.RecordSet) = 2
    /\ evaluated.err = "SubqueryTooManyFields"

Resolves(i, e) == FieldIndex(records[i].view, e).err = NoError

\* the cell a field reference names in record i of the stack
FieldOf(i, e) ==
    LET v == records[i] IN
    Value(v.view, v.view.RecordSet[v.recordIndex + 1][FieldIndex(v.view, e).idx])

Known(e) == {i \in DOMAIN records : FieldIndex(records[i].view, e).err # "FieldNotExist"}

WellFormedCall(e) == ToUpper(e.Name) \in AggregateFunctions /\ Len(e.Args) = 1

\* C18: an aggregate function call returns a value only when the filter stands
\* on a record of a grouped view: with an empty record stack it raises
\* UnpermittedFunctionStatement, on a view that is not grouped
\* NotGroupingRecords; on a grouped record COUNT(*) and COUNT(<literal>) return
\* the number of rows of the current group, whatever the literal.
C18_AggregateNeedsGroup ==
    Evaluated("AggregateFunction") =>
        LET e == evaluated.expr IN
        /\ evaluated.err = NoError => 0 < Len(records) /\ records[1].view.isGrouped
        /\ (WellFormedCall(e) /\ Len(records) = 0) =>
               evaluated.err = "UnpermittedFunctionStatement"
        /\ (WellFormedCall(e) /\ 0 < Len(records) /\ ~records[1].view.isGrouped) =>
               evaluated.err = "NotGroupingRecords"
        /\ (/\ WellFormedCall(e)
            /\ 0 < Len(records)
            /\ records[1].view.isGrouped
            /\ ToUpper(e.Name) = "COUNT"
            /\ e.Args[1].type \in {"AllColumns", "PrimitiveType"}) =>
               /\ evaluated.err = NoError
               /\ evaluated.val =
                      Integer(Len(records[1].view.RecordSet[records[1].recordIndex + 1][1]))

\* C18 witness: COUNT(NULL) on a group of two rows has returned 2
C18_Witness ==
    /\ Evaluated("AggregateFunction")
    /\ evaluated.expr = AggregateFunction("COUNT", <<PrimitiveType(Null)>>)
    /\ 0 < Len(records)
    /\ records[1].view.isGrouped
    /\ evaluated.err = NoError
    /\ evaluated.val = Integer(2)

\* C19: a Placeholder evaluates to the replacement value bound to it, a named
\* one to the value at the index registered for its name, an ordinal one k to
\* the k-th value counting from 1; it raises StatementReplaceValueNotSpecified
\* when the context carries no replacement table, when the name is not
\* registered, or when the ordinal exceeds the number of values; it never reads
\* outside the value list.
C19_PlaceholderBound ==
    Evaluated("Placeholder") =>
        LET e == evaluated.expr
            named == e.Name # ""
        IN /\ evaluated.err # "IndexOutOfRange"
           /\ IF \/ ~replaceValues.set
                 \/ named /\ e.Name \notin DOMAIN replaceValues.Names
                 \/ ~named /\ e.Ordinal > Len(replaceValues.Values)
              THEN evaluated.err = "StatementReplaceValueNotSpecified"
              ELSE /\ evaluated.err = NoError
                   /\ evaluated.val =
                          IF named THEN replaceValues.Values[replaceValues.Names[e.Name] + 1].Value
                          ELSE replaceValues.Values[e.Ordinal].Value

\* C19 witness: the ordinal placeholder one past the last value has raised
\* StatementReplaceValueNotSpecified, and (in another state) the last one its value
C19_Witness ==
    /\ Evaluated("Placeholder")
    /\ replaceValues.set
    /\ evaluated.expr.Name = ""
    /\ evaluated.expr.Ordinal = Len(replaceValues.Values) + 1
    /\ evaluated.err = "StatementReplaceValueNotSpecified"

\* C20: once the context is cancelled, Evaluate returns the ContextDone error
\* for every expression variant before it dispatches on the expression: no
\* value is returned, no sub-expression is evaluated, no variable is assigned.
C20_CancelledEvaluatesNothing ==
    (evaluated.called /\ ctxErr) =>
        /\ evaluated.err = "ContextIsDone"
        /\ evaluated.val = Null
        /\ variables = evaluated.before

\* C20 witness: under a cancelled context the substitution @a := !@a, and a
\* nil expression, have returned ContextDone
C20_Witness ==
    /\ evaluated.called
    /\ ctxErr
    /\ evaluated.expr \in {Flip, NilExpr}
    /\ evaluated.err = "ContextIsDone"
    /\ variables = evaluated.before

-----------------------------------------------------------------------------
(* The lexer's errors and the scanner's placeholders *)

LastReport == reports[Len(reports)]

\* the token the lexer had delivered last when the report was made
Delivered(r) == IF r.at = 0 THEN ZeroToken ELSE lexed[r.at].tok

\* C21: when the parser reports "syntax error" after the lexer has delivered
\* token t, the SyntaxError carries t's source file, line and column; its
\* message is 'syntax error: unexpected token "<t.Literal>"' when t's kind is
\* positive and 'syntax error: unexpected termination' when t is the
\* end-of-input token (kind -1).
C21_SyntaxErrorAtToken ==
    (reports # <<>> /\ LastReport.e = "syntax error") =>
        LET t == lexed[LastReport.at].tok IN
        /\ LastReport.at = Len(lexed)
        /\ lexer.err # Nil
        /\ lexer.err.SourceFile = t.SourceFile
        /\ lexer.err.Line = t.Line
        /\ lexer.err.Char = t.Char
        /\ 0 < t.Token =>
               lexer.err.Message = "syntax error: unexpected token \"" \o t.Literal \o "\""
        /\ t.Token = -1 => lexer.err.Message = "syntax error: unexpected termination"

\* C21 witness: `select from` has given, at the second token, the syntax
\* error of line 1, column 8 with the message: unexpected token "from"; the
\* other inputs reach the end of input as well
C21_Witness ==
    /\ scanner.items = <<"select", "from">>
    /\ Len(lexed) = 2
    /\ parse = "done"
    /\ lexer.err = [SourceFile |-> scanner.sourceFile, Line |-> 1, Char |-> 8,
                    Message |-> "syntax error: unexpected token \"from\""]

\* the SyntaxError of a report e made when token t was the last one delivered
Expected(e, t) ==
    [SourceFile |-> t.SourceFile, Line |-> t.Line, Char |-> t.Char,
     Message |-> IF 0 < t.Token THEN e \o ": unexpected token \"" \o t.Literal \o "\""
                 ELSE IF e = "syntax error" /\ t.Token = -1
                 THEN "syntax error: unexpected termination"
                 ELSE e]

\* C30: when Scan fails, Lex reports the failure before it records the token
\* just scanned: the SyntaxError of a scan error takes file, line and column
\* from the token lexed before (all zero at the first token), its message is
\* '<scan error>: unexpected token "<previous literal>"' when that token's
\* kind is positive and the bare scan error otherwise; every later call of
\* Error replaces the stored error, so the error held is the last one reported.
C30_ScanErrorAtPreviousToken ==
    /\ reports = <<>> => lexer.err = Nil
    /\ reports # <<>> =>
           /\ lexer.err = Expected(LastReport.e, Delivered(LastReport))
           /\ LastReport.e # "syntax error" =>
                  /\ LastReport.at < Len(lexed)
                  /\ lexed[LastReport.at + 1].err = LastReport.e
                  /\ LastReport.at = 0 =>
                         lexer.err = [SourceFile |-> "", Line |-> 0, Char |-> 0,
                                      Message |-> LastReport.e]

\* C30 witness: the scan of the second token of `select "s` has failed, and the
\* error has the position and the literal of `select`
C30_Witness ==
    /\ Len(lexed) = 2
    /\ lexed[1].tok.Token = Tokens.SELECT
    /\ lexed[2].err = "literal not terminated"
    /\ parse = "parsing"
    /\ lexer.err = [SourceFile |-> scanner.sourceFile, Line |-> 1, Char |-> 1,
                    Message |-> "literal not terminated: unexpected token \"select\""]
    /\ lexer.token = lexed[2].tok

\* the placeholder tokens among the first k tokens scanned
PlaceholdersUpTo(k) == {i \in 1..k : lexed[i].tok.Token = Tokens.PLACEHOLDER}

\* C22: with prepared-statement mode enabled, the k-th placeholder token
\* scanned, positional `?` or named `:name`, carries holder ordinal k (one
\* shared counter, incremented once per placeholder and by nothing else); with
\* the mode disabled no PLACEHOLDER token is produced (`?` is the plain '?'
\* token, `:foo` is ':' followed by an identifier) and every ordinal is 0.
C22_PlaceholderOrdinals ==
    \A i \in DOMAIN lexed :
        LET t == lexed[i].tok IN
        IF scanner.forPrepared
        THEN /\ t.Token = Tokens.PLACEHOLDER =>
                    t.HolderOrdinal = Cardinality(PlaceholdersUpTo(i))
             /\ t.Token # Tokens.PLACEHOLDER => t.HolderOrdinal = 0
             /\ t.Literal \in {"?", ":foo"} => t.Token = Tokens.PLACEHOLDER
        ELSE /\ t.Token # Tokens.PLACEHOLDER
             /\ t.HolderOrdinal = 0
             /\ t.Literal = "?" => t.Token = Tokens.Question
             /\ t.Literal # ":foo"
             /\ t.Literal = ":" =>
                    /\ t.Token = Tokens.Colon
                    /\ i < Len(lexed) =>
                           /\ lexed[i + 1].tok.Token = Tokens.IDENTIFIER
                           /\ lexed[i + 1].tok.Literal = "foo"

\* C22 witness: `? :foo` scanned for a prepared statement: ordinals 1 and 2
C22_Witness ==
    /\ scanner.forPrepared
    /\ Len(lexed) = 2
    /\ lexed[1].tok.Literal = "?"
    /\ lexed[1].tok.HolderOrdinal = 1
    /\ lexed[2].tok.Literal = ":foo"
    /\ lexed[2].tok.HolderOrdinal = 2

-----------------------------------------------------------------------------
(* Releasing the cached views, disposing of temporary views *)

\* the release errors the handlers of the stored views gave
Released ==
    {e \in [handler : last.stored, release : 1..MaxErrors] :
         e.release <= last.released[e.handler]}

Times(seq, x) == Cardinality({i \in DOMAIN seq : seq[i] = x})

\* C23: CleanWithErrors leaves the view map empty for every outcome of the
\* releases, calls CloseWithErrors exactly once for each view that was stored,
\* and returns nil exactly when no release failed; otherwise it returns one
\* ForcedUnlock error that contains every release error collected from every
\* view, none dropped.
C23_CleanWithErrorsCollectsAll ==
    last.op \in {"CleanWithErrors", "ForcedUnlockError"} =>
        /\ Held(cachedViews) = {}
        /\ \A k \in Keys : Times(last.closed, k) = IF k \in last.stored THEN 1 ELSE 0
        /\ (last.err = NoForcedUnlockError) <=> (Released = {})
        /\ last.err # NoForcedUnlockError =>
               /\ last.err.type = "ForcedUnlockError"
               /\ \A e \in Released : Times(last.err.Errors, e) = 1
               /\ Len(last.err.Errors) = Cardinality(Released)

\* C23 witness: two views were stored, the handlers of both gave a release
\* error, and the one error returned has the two
C23_Witness ==
    /\ last.op = "ForcedUnlockError"
    /\ Cardinality(last.stored) = 2
    /\ \A k \in last.stored : last.released[k] > 0
    /\ Len(last.err.Errors) = 2
    /\ Len(last.closed) = 2
    /\ Held(cachedViews) = {}

\* the frames that held a temporary view under the key before the call
TemporaryUnder(before, key) ==
    {d \in DOMAIN before : before[d][key] # NoShown /\ before[d][key].IsTemporary}

\* C24: TemporaryViewScopes.Dispose(name) removes exactly one entry, the one
\* under the upper-cased name in the innermost frame where that entry is a
\* temporary view, and returns nil; when no frame holds a temporary view under
\* that name (absent, or bound only to views of files) it returns
\* UndeclaredTemporaryTable and leaves every frame unchanged.
C24_DisposeInnermostTemporary ==
    last.op \in {"Dispose", "UndeclaredTemporaryTable"} =>
        LET key == IF last.arg = "t" THEN "T" ELSE IF last.arg = "u" THEN "U" ELSE last.arg
            holding == TemporaryUnder(last.before, key)
        IN IF holding = {}
           THEN last.op = "UndeclaredTemporaryTable" /\ StackNow = last.before
           ELSE LET d == CHOOSE x \in holding : \A y \in holding : x <= y
                IN /\ last.op = "Dispose"
                   /\ StackNow = [last.before EXCEPT ![d][key] = NoShown]

\* C24 witness: the name was bound to a view of a file in the inner frame and
\* to a temporary view in the outer one; the outer entry is gone, the inner stays
C24_Witness ==
    /\ last.op = "Dispose"
    /\ last.arg = "t"
    /\ Len(last.before) = 2
    /\ last.before[1]["T"] # NoShown
    /\ ~last.before[1]["T"].IsTemporary
    /\ last.before[2]["T"].IsTemporary
    /\ StackNow[1]["T"] = last.before[1]["T"]
    /\ StackNow[2]["T"] = NoShown

-----------------------------------------------------------------------------
(* The parallel branch of EvaluateSequentially *)

\* the workers whose range holds the record index
WorkersOf(index) == {thIdx \in DOMAIN workers : workers[thIdx].start <= index
                                                /\ index < workers[thIdx].end}

\* C25: in the parallel path of EvaluateSequentially over a view of N records,
\* with no callback error and no cancellation, the callback is invoked exactly
\* once for each index in [0,N): the workers' ranges are disjoint and cover
\* [0,N), and each invocation receives the original record index together
\* with a filter positioned on that same record.
C25_EachRecordOnce ==
    (pc = "done" /\ route = "parallel" /\ ret = NoErr /\ ~ctxErr) =>
        \A index \in 0..(Len(recordSet) - 1) :
            /\ invoked[index + 1] = 1
            /\ Cardinality(WorkersOf(index)) = 1
            /\ expr = ColumnNumber(1) => results[index + 1] = recordSet[index + 1][1]
            /\ expr = NilExpr => results[index + 1] = TRUE_

\* C25 witness: two workers have gone through a view of MaxRecords records
\* whose first record differs from the others; each record's value is stored
\* under its index
C25_Witness ==
    /\ pc = "done"
    /\ route = "parallel"
    /\ ret = NoErr
    /\ ~ctxErr
    /\ Len(workers) = 2
    /\ Len(recordSet) = MaxRecords
    /\ recordSet[1] # recordSet[2]
    /\ expr = ColumnNumber(1)
    /\ \A i \in DOMAIN recordSet : results[i] = recordSet[i][1] /\ invoked[i] = 1

\* the workers that have not called gm.Done()
Running == {thIdx \in DOMAIN workers : workers[thIdx].pc # "done"}

\* C26: every call of EvaluateSequentially in the parallel path eventually
\* returns: each dispatched worker is counted by Add before it starts and
\* calls Done exactly once on every exit path (range exhausted, error seen in
\* the shared slot, own callback error, context cancelled), so Wait is
\* always released.
C26_ParallelPathReturns ==
    /\ [](route = "parallel" => gm.count = Cardinality(Running))
    /\ (pc = "wait") ~> (pc = "done")

\* C26 witness: the call has returned after one worker left on its own
\* callback error and another under the cancelled context
C26_Witness ==
    /\ pc = "done"
    /\ route = "parallel"
    /\ Len(workers) = 2
    /\ Len(stored) = 1
    /\ ctxErr
    /\ gm.count = 0
    /\ \E thIdx \in DOMAIN workers :
           workers[thIdx].recordIndex < workers[thIdx].end - workers[thIdx].start - 1
           /\ invoked[workers[thIdx].start + 1] = 0

-----------------------------------------------------------------------------
(* SortValue.Less over three values, and SortValue.EquivalentTo *)

\* C28: SortValue.Less, the comparator OrderBy sorts with, is free of cycles
\* on values produced by NewSortValue: for all a, b, c of any kinds, if
\* a.Less(b) is TRUE and b.Less(c) is TRUE then c.Less(a) is not TRUE.
C28_LessHasNoCycle ==
    compared.called => ~(compared.ab = 1 /\ compared.bc = 1 /\ compared.ca = 1)

\* C29: grouping equality and ordering agree on SortValues produced by
\* NewSortValue: whenever a.EquivalentTo(b) is true (Integer 0/1 with Boolean
\* false/true and Null with Null included), b.EquivalentTo(a) is true as well
\* and both a.Less(b) and b.Less(a) are UNKNOWN.
C29_EquivalentIsUnordered ==
    (compared.called /\ compared.abEquivalent) =>
        /\ compared.baEquivalent
        /\ compared.ab = 0
        /\ compared.ba = 0

\* C29 witness: the Integer 1 and the Boolean true are equivalent both ways
\* and neither is less than the other
C29_Witness ==
    /\ compared.called
    /\ compared.a.Type = IntegerType
    /\ compared.a.Integer = 1
    /\ compared.b.Type = BooleanType
    /\ compared.b.Boolean
    /\ compared.abEquivalent
    /\ compared.baEquivalent
    /\ compared.ab = 0
    /\ compared.ba = 0

-----------------------------------------------------------------------------
(* Child filters: what the parent resolves while the child declares *)

\* what filter j resolves on each of its four stacks, and how deep each stack is
VisibleIn(fs, fl, j) ==
    [kind \in StackKinds |->
        [depth |-> Len(fl[j][kind]),
         resolved |-> [name \in Declarable |-> StackGet(fs[kind], fl[j][kind], name)]]]

\* C27: after CreateChildScope, a Set through the child on any of its four
\* stacks and ResetCurrentScope on the child touch only the child's new frame 0:
\* every filter above the one in use resolves each name to the same value as
\* before the step (so a name declared only in the child stays unresolvable
\* through the parent), and the depth of each of its four stacks is unchanged.
C27_ChildTouchesOwnFrame ==
    [][\A j \in 1..(Len(filters') - 1) :
          /\ VisibleIn(frames', filters', j) = VisibleIn(frames, filters, j)
          /\ \A kind \in StackKinds : \A name \in Declarable :
                 StackGet(frames[kind], filters[j][kind], name) = Undeclared
                     => StackGet(frames'[kind], filters'[j][kind], name) = Undeclared]_vars

\* C27 witness: a child is in use; it has declared the variable the parent
\* declared, as another value, and a cursor the parent has not; the parent
\* resolves its own variable and no cursor, on stacks of one frame
C27_Witness ==
    /\ Len(filters) = 2
    /\ StackGet(frames.variables, filters[1].variables, "a") = 1
    /\ StackGet(frames.variables, filters[2].variables, "a") = 2
    /\ StackGet(frames.cursors, filters[1].cursors, "a") = Undeclared
    /\ StackGet(frames.cursors, filters[2].cursors, "a") = 1
    /\ Len(filters[2].variables) = 2
    /\ Len(filters[1].variables) = 1

====
